---- MODULE Spec2Model ----
(***************************************************************************)
(* Model of the fast_sync_backend vault synchronisation core               *)
(* (src/fast_sync_backend/routers/sync.py, caching.py, database.py).       *)
(*                                                                         *)
(* Every request is handled by a worker thread (FastAPI runs the `def`     *)
(* handlers in a thread pool).  A handler is a sequence of steps, one per  *)
(* storage statement / cache call, so that requests of different workers   *)
(* interleave between statements exactly as the threads of the server do.  *)
(*                                                                         *)
(* Storage is one SQLite file per vault, opened by a fresh connection per   *)
(* request with Python's default (legacy) transaction control: a SELECT    *)
(* runs in autocommit mode, the first INSERT/REPLACE/DELETE opens a        *)
(* transaction implicitly, db.commit() publishes it and db.rollback()      *)
(* discards it.  SQLite admits one writer at a time per file; readers see  *)
(* the committed state only.  PRAGMA foreign_keys is never switched on,    *)
(* so the ON DELETE CASCADE of file_versions is not enforced.              *)
(***************************************************************************)
EXTENDS Integers, Sequences, FiniteSets, TLC

VARIABLES
    db,           \* db[v]: the committed tables of vault v's database file
    txn,          \* txn[v]: the open write transaction on v's file, if any
    state_cache,  \* caching.state_cache: dict vault_id -> StateResponseModel
    clock,        \* the wall clock read by datetime.utcnow()
    w,            \* w[p]: the request worker p is handling and its position
    uploaded,     \* history: uploaded[v] lists the items of the uploads committed
                  \* to v since its last committed reset, in commit order
    replaced,     \* history: replaced[v] is << m >> while the last mutation
                  \* committed to v is a reset, m the marker v stored before that
                  \* reset, and << >> otherwise
    initialized_dbs,  \* database.initialized_dbs: the vault ids recorded as set up
    db_init_lock,     \* database.db_init_lock: the worker that holds it, if any
    schema,       \* schema[v]: the tables and indexes v's database file holds
    creations     \* history: creations[v] counts the runs of create_tables for
                  \* v, and those of them that ran to their end

\* the state of database.py: what get_db reads and writes
db_init == <<initialized_dbs, db_init_lock, schema, creations>>

vars == <<db, txn, state_cache, clock, w, uploaded, replaced, db_init>>

----------------------------------------------------------------------------
(* Bounds of the model *)

\* most FileVersion rows a vault's database (committed or in a transaction) holds
MaxVersions == 2
\* most items of one upload payload
MaxItems == 2
\* last tick of the wall clock
MaxClock == 1
\* most runs of create_tables that fail, per vault
MaxInitFailures == 1

Vaults == {"v1", "v2"}
Workers == {"w1", "w2"}
\* the vault and the worker of the single-vault, one-request-at-a-time runs
SoloVaults == {"v1"}
SoloWorkers == {"w1"}

----------------------------------------------------------------------------
(* Values *)

\* Python's None / SQL NULL for Optional[str]
None == "<None>"
NoWorker == "<nobody>"

\* the key the server is configured with, and a key that is not it
API_KEY == "key"
WrongKey == "wrong-key"

\* encryptionValidation: Optional[str] of the two payload models
RequestMarkers == {None, "", "A", "B"}

\* Python truthiness of an Optional[str]: None and "" are falsy
Truthy(m) == m # None /\ m # ""

\* VersionDataPayload values the clients send
Item(sid, path, content, mtime, hash, bin, del) ==
    [stableId |-> sid, filePath |-> path, content |-> content, mtime |-> mtime,
     contentHash |-> hash, isBinary |-> bin, deleted |-> del]

\* a file; the same file renamed, changed and deleted, with an older mtime;
\* another file at the first one's path
File1 == Item("s1", "p1", "c1", 6, "h1", 0, FALSE)
File2 == Item("s1", "p2", "c2", 5, "h2", 1, TRUE)
File3 == Item("s2", "p1", "c3", 6, "h3", 0, FALSE)

Items == {File1, File2, File3}

StableIds == {"s1", "s2"}

\* UploadChangesPayload.data: List[VersionDataPayload]
Payloads == UNION { [1..n -> Items] : n \in 0..MaxItems }

----------------------------------------------------------------------------
(* Time stamps: datetime.datetime.utcnow().isoformat(), stored as TEXT *)

\* The clock counts half seconds.  isoformat() writes the seconds and, only
\* when it is not zero, the fraction after them ("...:07" but "...:07.500000"):
\* a text of one or of two fixed-width components.
isoformat(t) == IF t % 2 = 0 THEN << t \div 2 >> ELSE << t \div 2, t % 2 >>

\* SQLite's BINARY collation on TEXT: memcmp, and a proper prefix sorts first.
RECURSIVE TextLess(_, _)
TextLess(a, b) ==
    IF a = << >> THEN b # << >>
    ELSE IF b = << >> THEN FALSE
    ELSE IF Head(a) # Head(b) THEN Head(a) < Head(b)
    ELSE TextLess(Tail(a), Tail(b))

TextLeq(a, b) == a = b \/ TextLess(a, b)

----------------------------------------------------------------------------
(* The tables of one vault's database file (database.create_tables) *)

EmptyDb == [vault_files |-> {}, file_versions |-> << >>, vault_metadata |-> {}]

\* int(file.deleted) on the way in, bool(row['deleted']) on the way out
IntOfBool(b) == IF b THEN 1 ELSE 0
BoolOfInt(n) == n # 0

\* the vault_files row an upload item is written as
FileRow(file) ==
    [stableId |-> file.stableId, currentEncryptedFilePath |-> file.filePath,
     currentMtime |-> file.mtime, currentContentHash |-> file.contentHash,
     isBinary |-> file.isBinary, deleted |-> IntOfBool(file.deleted)]

\* the file_versions row an upload item is written as
VersionRow(file, version_time) ==
    [stableId |-> file.stableId, encryptedFilePath |-> file.filePath,
     encryptedContent |-> file.content, version_time |-> version_time,
     mtime |-> file.mtime, contentHash |-> file.contentHash,
     isBinary |-> file.isBinary]

\* a replace that keeps the stored row when its mtime is the newer one
ReplaceVaultFile_NewerOnly(d, file) ==
    IF \E r \in d.vault_files :
          r.stableId = file.stableId /\ r.currentMtime > file.mtime
    THEN d
    ELSE [d EXCEPT !.vault_files =
             { r \in @ : r.stableId # file.stableId } \cup { FileRow(file) }]

\* a replace with foreign keys enforced: removing the row of the same key
\* cascades into its file_versions
ReplaceVaultFile_Cascade(d, file) ==
    [d EXCEPT !.vault_files =
                 { r \in @ : r.stableId # file.stableId } \cup { FileRow(file) },
              !.file_versions =
                 SelectSeq(@, LAMBDA r : r.stableId # file.stableId)]

\* INSERT OR REPLACE INTO vault_files: stableId is the PRIMARY KEY, so the
\* row of the same key is removed first.  Foreign keys are not enforced, so
\* the removal does not cascade into file_versions.
ReplaceVaultFile(d, file) ==
    [d EXCEPT !.vault_files =
        { r \in @ : r.stableId # file.stableId } \cup { FileRow(file) }]

\* INSERT INTO file_versions: a new row with the next AUTOINCREMENT id,
\* the rows kept in id order
InsertFileVersion(d, file, version_time) ==
    [d EXCEPT !.file_versions = Append(@, VersionRow(file, version_time))]

\* INSERT OR IGNORE in place of INSERT OR REPLACE: an existing row stays
ReplaceVaultMetadata_Ignore(d, vault_id, marker) ==
    IF \E r \in d.vault_metadata : r.vault_id = vault_id THEN d
    ELSE [d EXCEPT !.vault_metadata =
             @ \cup { [vault_id |-> vault_id, encryption_validation |-> marker] }]

\* INSERT OR REPLACE INTO vault_metadata (vault_id, encryption_validation)
ReplaceVaultMetadata(d, vault_id, marker) ==
    [d EXCEPT !.vault_metadata =
        { r \in @ : r.vault_id # vault_id }
            \cup { [vault_id |-> vault_id, encryption_validation |-> marker] }]

\* SELECT encryption_validation FROM vault_metadata WHERE vault_id = ?
\* followed by  meta_row['encryption_validation'] if meta_row else None
SelectMarker(d, vault_id) ==
    LET rows == { r \in d.vault_metadata : r.vault_id = vault_id }
    IN  IF rows = {} THEN None ELSE (CHOOSE r \in rows : TRUE).encryption_validation

\* DELETE FROM file_versions
DeleteFileVersions(d) == [d EXCEPT !.file_versions = << >>]

\* DELETE FROM vault_files
DeleteVaultFiles(d) == [d EXCEPT !.vault_files = {}]

----------------------------------------------------------------------------
(* Connections and transactions (database.get_db, sqlite3) *)

NoTxn == [owner |-> NoWorker, work |-> EmptyDb]

\* read-uncommitted: a statement reads the changes of any open transaction
View_Dirty(p, v) == IF txn[v].owner # NoWorker THEN txn[v].work ELSE db[v]

\* what a statement of p's connection reads: its own uncommitted changes
\* inside its transaction, the committed tables otherwise
View(p, v) == IF txn[v].owner = p THEN txn[v].work ELSE db[v]

\* a writing statement needs the file's write lock: free, or already p's
CanWrite(p, v) == txn[v].owner \in {NoWorker, p}

\* p's statement leaves the tables of its transaction as d (the transaction
\* is opened implicitly by the first writing statement)
Written(p, v, d) == [txn EXCEPT ![v] = [owner |-> p, work |-> d]]

\* db.commit(): publish p's transaction; nothing to do when none is open
Committed(p, v) == IF txn[v].owner = p THEN [db EXCEPT ![v] = txn[v].work] ELSE db

\* db.commit() and db.rollback() both end p's transaction
Ended(p, v) == IF txn[v].owner = p THEN [txn EXCEPT ![v] = NoTxn] ELSE txn

----------------------------------------------------------------------------
(* The state cache (caching.py); every call holds state_cache_lock, so each
   is one atomic step *)

\* state_cache.get(vault_id) is not None
Cached(cache, vault_id) == vault_id \in DOMAIN cache

\* a cache of one slot: the entry stored last is the only one
set_cached_state_SingleSlot(cache, vault_id, response) ==
    [x \in {vault_id} |-> response]

\* state_cache[vault_id] = response
set_cached_state(cache, vault_id, response) ==
    [x \in DOMAIN cache \cup {vault_id} |->
        IF x = vault_id THEN response ELSE cache[x]]

\* state_cache.clear() in place of the deletion of one key
invalidate_state_cache_Clear(cache, vault_id) == << >>

\* if vault_id in state_cache: del state_cache[vault_id]
invalidate_state_cache(cache, vault_id) ==
    [x \in DOMAIN cache \ {vault_id} |-> cache[x]]

\* VaultFileStateModel of a vault_files row
FileState(row) ==
    [currentEncryptedFilePath |-> row.currentEncryptedFilePath,
     currentMtime |-> row.currentMtime,
     currentContentHash |-> row.currentContentHash,
     isBinary |-> row.isBinary, deleted |-> BoolOfInt(row.deleted)]

\* StateResponseModel(state={row['stableId']: ... for row in rows}, ...)
StateResponse(rows, marker) ==
    [state |-> [sid \in { r.stableId : r \in rows } |->
                    FileState(CHOOSE r \in rows : r.stableId = sid)],
     encryptionValidation |-> marker]

\* HistoryEntryModel of a file_versions row
HistoryEntry(row) ==
    [filePath |-> row.encryptedFilePath, content |-> row.encryptedContent,
     mtime |-> row.mtime, contentHash |-> row.contentHash,
     isBinary |-> row.isBinary, version_time |-> row.version_time]

----------------------------------------------------------------------------
(* The consistency gate of upload_changes *)

\* Gate without its first branch: two different markers pass
Gate_NoConflict(existing_encryption_marker, request_encryption_marker) ==
    IF Truthy(existing_encryption_marker) /\ ~Truthy(request_encryption_marker)
    THEN "Encryption Mismatch: Server expects encrypted data."
    ELSE "pass"

\* Gate without its elif branch: a missing marker passes
Gate_NoRequired(existing_encryption_marker, request_encryption_marker) ==
    IF Truthy(existing_encryption_marker) /\ Truthy(request_encryption_marker)
          /\ existing_encryption_marker # request_encryption_marker
    THEN "Encryption Key Mismatch"
    ELSE "pass"

\* Gate with the comparison lost: any marker on a marked vault is a conflict
Gate_AlwaysConflict(existing_encryption_marker, request_encryption_marker) ==
    IF Truthy(existing_encryption_marker) /\ Truthy(request_encryption_marker)
    THEN "Encryption Key Mismatch"
    ELSE IF Truthy(existing_encryption_marker) /\ ~Truthy(request_encryption_marker)
         THEN "Encryption Mismatch: Server expects encrypted data."
         ELSE "pass"

\* Gate testing "is not None" in place of truthiness: the empty string
\* counts as a marker
Gate_NotNone(existing_encryption_marker, request_encryption_marker) ==
    IF existing_encryption_marker # None /\ request_encryption_marker # None
    THEN IF existing_encryption_marker # request_encryption_marker
         THEN "Encryption Key Mismatch"
         ELSE "pass"
    ELSE IF existing_encryption_marker # None /\ request_encryption_marker = None
         THEN "Encryption Mismatch: Server expects encrypted data."
         ELSE "pass"

\* "pass", or the rejection raised as HTTPException(409)
Gate(existing_encryption_marker, request_encryption_marker) ==
    IF Truthy(existing_encryption_marker) /\ Truthy(request_encryption_marker)
    THEN IF existing_encryption_marker # request_encryption_marker
         THEN "Encryption Key Mismatch"
         ELSE "pass"
    ELSE IF Truthy(existing_encryption_marker) /\ ~Truthy(request_encryption_marker)
         THEN "Encryption Mismatch: Server expects encrypted data."
         ELSE "pass"

----------------------------------------------------------------------------
(* Workers *)

NoSnapshot == [state |-> << >>, encryptionValidation |-> None]
NoResp ==
    [status |-> 0, detail |-> "", state |-> NoSnapshot, history |-> << >>,
     files |-> << >>, file_list |-> << >>]
NoPre == [db |-> EmptyDb, cache |-> << >>, replaced |-> << >>, busy |-> {}]

\* a worker with no request
Idle ==
    [pc |-> "idle", kind |-> "none", vault |-> "", marker |-> None,
     data |-> << >>, stable_id |-> "", paths |-> << >>, existing |-> None,
     ts |-> << >>,
     i |-> 1, rows |-> {}, resp |-> NoResp, log |-> << >>, pre |-> NoPre,
     x_api_key |-> API_KEY]

\* the request as the handler receives it.  log lists the storage and cache
\* calls the handler has made; pre, when the run keeps it, is what the
\* request found on arrival: the vault's committed tables, the cache, the
\* vault's entry of replaced and the workers that had a request in hand
Received(kind, first, v, marker, data, stable_id, keep) ==
    [Idle EXCEPT !.pc = first, !.kind = kind, !.vault = v, !.marker = marker,
                 !.data = data, !.stable_id = stable_id,
                 !.pre = IF keep
                         THEN [db |-> db[v], cache |-> state_cache,
                               replaced |-> replaced[v],
                               busy |-> { q \in Workers : w[q].pc # "idle" }]
                         ELSE NoPre]

At(p, kind, pc) == w[p].kind = kind /\ w[p].pc = pc

\* worker p moves to pc, having made the call named op
Step(p, pc, op) == [w[p] EXCEPT !.pc = pc, !.log = Append(@, op)]

\* the handler ends: it returns the response or raises the HTTPException
Ends(r, status, detail) ==
    [r EXCEPT !.pc = "respond", !.resp.status = status, !.resp.detail = detail]

\* FileVersion rows the uploads in flight on v may still add
RECURSIVE Pending(_, _)
Pending(v, ps) ==
    IF ps = {} THEN 0
    ELSE LET p == CHOOSE x \in ps : TRUE
         IN  (IF w[p].kind = "upload" /\ w[p].vault = v
                   /\ w[p].pc \notin {"invalidate", "respond"}
              THEN Len(w[p].data) ELSE 0) + Pending(v, ps \ {p})

----------------------------------------------------------------------------
(* upload_changes *)

\* POST /v1/{vault_id}/uploadChanges arrives at worker p
StartUpload(p, v, data, marker, keep) ==
    /\ w[p].pc = "idle"
    /\ Len(db[v].file_versions) + Pending(v, Workers) + Len(data) <= MaxVersions
    /\ w' = [w EXCEPT ![p] = Received("upload", "select_meta", v, marker, data, "", keep)]
    /\ UNCHANGED <<db, txn, state_cache, clock, uploaded, replaced, db_init>>

\* the handler with invalidate_state_cache in a finally clause: a rejected
\* upload drops the cache entry too
UploadGate_FinallyInvalidate(p) ==
    /\ At(p, "upload", "select_meta")
    /\ LET v == w[p].vault
           existing == SelectMarker(View(p, v), v)
           verdict == Gate(existing, w[p].marker)
           r == [Step(p, "stamp", "SELECT vault_metadata") EXCEPT !.existing = existing]
       IN  /\ w' = [w EXCEPT ![p] =
                       IF verdict # "pass" THEN Ends(r, 409, verdict)
                       ELSE IF Truthy(w[p].marker) THEN [r EXCEPT !.pc = "write_meta"]
                       ELSE r]
           /\ state_cache' = IF verdict # "pass"
                             THEN invalidate_state_cache(state_cache, v)
                             ELSE state_cache
    /\ UNCHANGED <<db, txn, clock, uploaded, replaced, db_init>>

\* the SELECT of the stored marker and the gate on it: a rejection raises
\* HTTPException(409), which the handler re-raises without commit or rollback
UploadGate(p) ==
    /\ At(p, "upload", "select_meta")
    /\ LET v == w[p].vault
           existing == SelectMarker(View(p, v), v)
           verdict == Gate(existing, w[p].marker)
           r == [Step(p, "stamp", "SELECT vault_metadata") EXCEPT !.existing = existing]
       IN  w' = [w EXCEPT ![p] =
                    IF verdict # "pass" THEN Ends(r, 409, verdict)
                    ELSE IF Truthy(w[p].marker) THEN [r EXCEPT !.pc = "write_meta"]
                    ELSE r]
    /\ UNCHANGED <<db, txn, state_cache, clock, uploaded, replaced, db_init>>

\* if request_encryption_marker: INSERT OR REPLACE INTO vault_metadata
UploadWriteMarker(p) ==
    /\ At(p, "upload", "write_meta")
    /\ LET v == w[p].vault
       IN  /\ CanWrite(p, v)
           /\ txn' = Written(p, v, ReplaceVaultMetadata(View(p, v), v, w[p].marker))
    /\ w' = [w EXCEPT ![p] = Step(p, "stamp", "REPLACE vault_metadata")]
    /\ UNCHANGED <<db, state_cache, clock, uploaded, replaced, db_init>>

\* current_time_iso = datetime.datetime.utcnow().isoformat()
UploadStamp(p) ==
    /\ At(p, "upload", "stamp")
    /\ w' = [w EXCEPT ![p] =
                [@ EXCEPT !.ts = isoformat(clock),
                          !.pc = IF w[p].data = << >> THEN "commit" ELSE "replace_file"]]
    /\ UNCHANGED <<db, txn, state_cache, clock, uploaded, replaced, db_init>>

\* for file in files_data: INSERT OR REPLACE INTO vault_files ...
UploadReplaceFile(p) ==
    /\ At(p, "upload", "replace_file")
    /\ LET v == w[p].vault
       IN  /\ CanWrite(p, v)
           /\ txn' = Written(p, v, ReplaceVaultFile(View(p, v), w[p].data[w[p].i]))
    /\ w' = [w EXCEPT ![p] = Step(p, "insert_version", "REPLACE vault_files")]
    /\ UNCHANGED <<db, state_cache, clock, uploaded, replaced, db_init>>

\* ... INSERT INTO file_versions, and on to the next file
UploadInsertVersion(p) ==
    /\ At(p, "upload", "insert_version")
    /\ LET v == w[p].vault
       IN  /\ CanWrite(p, v)
           /\ txn' = Written(p, v,
                        InsertFileVersion(View(p, v), w[p].data[w[p].i], w[p].ts))
    /\ w' = [w EXCEPT ![p] =
                [Step(p, IF w[p].i = Len(w[p].data) THEN "commit" ELSE "replace_file",
                      "INSERT file_versions") EXCEPT !.i = @ + 1]]
    /\ UNCHANGED <<db, state_cache, clock, uploaded, replaced, db_init>>

\* the handler with the two calls in the other order: the cache entry is
\* dropped first, the transaction committed after
UploadCommit_InvalidateFirst(p) ==
    /\ At(p, "upload", "commit")
    /\ db' = Committed(p, w[p].vault)
    /\ txn' = Ended(p, w[p].vault)
    /\ state_cache' = invalidate_state_cache(state_cache, w[p].vault)
    /\ w' = [w EXCEPT ![p] =
                Ends([Step(p, "respond", "invalidate_state_cache")
                         EXCEPT !.log = Append(@, "commit")], 200, "success")]
    /\ uploaded' = [uploaded EXCEPT ![w[p].vault] = @ \o w[p].data]
    /\ replaced' = [replaced EXCEPT ![w[p].vault] = << >>]
    /\ UNCHANGED <<clock, db_init>>

\* db.commit()
UploadCommit(p) ==
    /\ At(p, "upload", "commit")
    /\ db' = Committed(p, w[p].vault)
    /\ txn' = Ended(p, w[p].vault)
    /\ w' = [w EXCEPT ![p] = Step(p, "invalidate", "commit")]
    /\ uploaded' = [uploaded EXCEPT ![w[p].vault] = @ \o w[p].data]
    /\ replaced' = [replaced EXCEPT ![w[p].vault] = << >>]
    /\ UNCHANGED <<state_cache, clock, db_init>>

\* the handler without its invalidate_state_cache call
UploadInvalidate_Skipped(p) ==
    /\ At(p, "upload", "invalidate")
    /\ w' = [w EXCEPT ![p] = Ends(w[p], 200, "success")]
    /\ UNCHANGED <<db, txn, state_cache, clock, uploaded, replaced, db_init>>

\* invalidate_state_cache(vault_id); response = {"status": "success"}
UploadInvalidate(p) ==
    /\ At(p, "upload", "invalidate")
    /\ state_cache' = invalidate_state_cache(state_cache, w[p].vault)
    /\ w' = [w EXCEPT ![p] =
                Ends(Step(p, "respond", "invalidate_state_cache"), 200, "success")]
    /\ UNCHANGED <<db, txn, clock, uploaded, replaced, db_init>>

\* the error path dropping the cache entry as well
UploadStorageError_Invalidates(p) ==
    /\ w[p].kind = "upload"
    /\ w[p].pc \in {"select_meta", "write_meta", "replace_file", "insert_version", "commit"}
    /\ txn' = Ended(p, w[p].vault)
    /\ state_cache' = invalidate_state_cache(state_cache, w[p].vault)
    /\ w' = [w EXCEPT ![p] =
                Ends(Step(p, "respond", "rollback"), 500, "Database error during upload")]
    /\ UNCHANGED <<db, clock, uploaded, replaced, db_init>>

\* the error path with db.commit() where db.rollback() belongs
UploadStorageError_Commits(p) ==
    /\ w[p].kind = "upload"
    /\ w[p].pc \in {"select_meta", "write_meta", "replace_file", "insert_version", "commit"}
    /\ db' = Committed(p, w[p].vault)
    /\ txn' = Ended(p, w[p].vault)
    /\ w' = [w EXCEPT ![p] =
                Ends(Step(p, "respond", "commit"), 500, "Database error during upload")]
    /\ UNCHANGED <<state_cache, clock, uploaded, replaced, db_init>>

\* the handler starting over after a storage error instead of raising
UploadStorageError_Retries(p) ==
    /\ w[p].kind = "upload"
    /\ w[p].pc \in {"select_meta", "write_meta", "replace_file", "insert_version", "commit"}
    /\ txn' = Ended(p, w[p].vault)
    /\ w' = [w EXCEPT ![p] = [Step(p, "select_meta", "rollback") EXCEPT !.i = 1]]
    /\ UNCHANGED <<db, state_cache, clock, uploaded, replaced, db_init>>

\* except sqlite3.Error: a storage statement of the upload (the SELECT, a
\* write, the commit) fails; db.rollback() and HTTPException(500)
UploadStorageError(p) ==
    /\ w[p].kind = "upload"
    /\ w[p].pc \in {"select_meta", "write_meta", "replace_file", "insert_version", "commit"}
    /\ txn' = Ended(p, w[p].vault)
    /\ w' = [w EXCEPT ![p] =
                Ends(Step(p, "respond", "rollback"), 500, "Database error during upload")]
    /\ UNCHANGED <<db, state_cache, clock, uploaded, replaced, db_init>>

----------------------------------------------------------------------------
(* download_state *)

\* GET /v1/{vault_id}/state arrives at worker p
StartState(p, v, keep) ==
    /\ w[p].pc = "idle"
    /\ w' = [w EXCEPT ![p] = Received("state", "cache_get", v, None, << >>, "", keep)]
    /\ UNCHANGED <<db, txn, state_cache, clock, uploaded, replaced, db_init>>

\* the handler ignoring what get_cached_state returned
StateCacheGet_NoHit(p) ==
    /\ At(p, "state", "cache_get")
    /\ w' = [w EXCEPT ![p] = Step(p, "select_files", "get_cached_state")]
    /\ UNCHANGED <<db, txn, state_cache, clock, uploaded, replaced, db_init>>

\* cached_response = get_cached_state(vault_id); returned when there is one
StateCacheGet(p) ==
    /\ At(p, "state", "cache_get")
    /\ LET v == w[p].vault
           r == Step(p, "select_files", "get_cached_state")
       IN  w' = [w EXCEPT ![p] =
                    IF Cached(state_cache, v)
                    THEN [Ends(r, 200, "cached") EXCEPT !.resp.state = state_cache[v]]
                    ELSE r]
    /\ UNCHANGED <<db, txn, state_cache, clock, uploaded, replaced, db_init>>

\* SELECT ... FROM vault_files; rows = cursor.fetchall()
StateSelectFiles(p) ==
    /\ At(p, "state", "select_files")
    /\ w' = [w EXCEPT ![p] =
                [Step(p, "select_meta", "SELECT vault_files")
                    EXCEPT !.rows = View(p, w[p].vault).vault_files]]
    /\ UNCHANGED <<db, txn, state_cache, clock, uploaded, replaced, db_init>>

\* SELECT encryption_validation FROM vault_metadata WHERE vault_id = ?
StateSelectMarker(p) ==
    /\ At(p, "state", "select_meta")
    /\ w' = [w EXCEPT ![p] =
                [Step(p, "cache_set", "SELECT vault_metadata")
                    EXCEPT !.existing = SelectMarker(View(p, w[p].vault), w[p].vault)]]
    /\ UNCHANGED <<db, txn, state_cache, clock, uploaded, replaced, db_init>>

\* response = StateResponseModel(...); set_cached_state(vault_id, response)
StateCacheSet(p) ==
    /\ At(p, "state", "cache_set")
    /\ LET response == StateResponse(w[p].rows, w[p].existing)
       IN  /\ state_cache' = set_cached_state(state_cache, w[p].vault, response)
           /\ w' = [w EXCEPT ![p] =
                       [Ends(Step(p, "respond", "set_cached_state"), 200, "db")
                           EXCEPT !.resp.state = response]]
    /\ UNCHANGED <<db, txn, clock, uploaded, replaced, db_init>>

\* the error path caching what it has read so far
StateStorageError_CachesPartial(p) ==
    /\ w[p].kind = "state"
    /\ w[p].pc \in {"select_files", "select_meta"}
    /\ state_cache' = set_cached_state(state_cache, w[p].vault,
                                       StateResponse(w[p].rows, w[p].existing))
    /\ w' = [w EXCEPT ![p] = Ends(w[p], 500, "Database error fetching state")]
    /\ UNCHANGED <<db, txn, clock, uploaded, replaced, db_init>>

\* except sqlite3.Error: one of the two SELECTs fails; HTTPException(500)
StateStorageError(p) ==
    /\ w[p].kind = "state"
    /\ w[p].pc \in {"select_files", "select_meta"}
    /\ w' = [w EXCEPT ![p] = Ends(w[p], 500, "Database error fetching state")]
    /\ UNCHANGED <<db, txn, state_cache, clock, uploaded, replaced, db_init>>

----------------------------------------------------------------------------
(* get_file_history *)

\* the 1-1 sequences over the set S: the orders a result set may come in
Orders(S) ==
    { f \in [1..Cardinality(S) -> S] : \A i, j \in DOMAIN f : i # j => f[i] # f[j] }

\* the query with ORDER BY version_time ASC
SelectHistory_Ascending(d, stable_id) ==
    LET ids == { k \in DOMAIN d.file_versions : d.file_versions[k].stableId = stable_id }
    IN  { [n \in DOMAIN o |-> d.file_versions[o[n]]] :
            o \in { f \in Orders(ids) :
                      \A i, j \in DOMAIN f :
                          i < j => TextLeq(d.file_versions[f[i]].version_time,
                                           d.file_versions[f[j]].version_time) } }

\* SELECT ... FROM file_versions WHERE stableId = ? ORDER BY version_time DESC:
\* the matching rows in an order of non-increasing version_time; the order
\* among rows of equal version_time is the engine's choice
SelectHistory(d, stable_id) ==
    LET ids == { k \in DOMAIN d.file_versions : d.file_versions[k].stableId = stable_id }
    IN  { [n \in DOMAIN o |-> d.file_versions[o[n]]] :
            o \in { f \in Orders(ids) :
                      \A i, j \in DOMAIN f :
                          i < j => TextLeq(d.file_versions[f[j]].version_time,
                                           d.file_versions[f[i]].version_time) } }

\* GET /v1/{vault_id}/fileHistory/{stable_id} arrives at worker p
StartHistory(p, v, stable_id, keep) ==
    /\ w[p].pc = "idle"
    /\ w' = [w EXCEPT ![p] = Received("history", "select_history", v, None, << >>, stable_id, keep)]
    /\ UNCHANGED <<db, txn, state_cache, clock, uploaded, replaced, db_init>>

\* rows = cursor.fetchall(); response = [HistoryEntryModel(...) for row in rows]
HistorySelect(p) ==
    /\ At(p, "history", "select_history")
    /\ \E rows \in SelectHistory(View(p, w[p].vault), w[p].stable_id) :
          w' = [w EXCEPT ![p] =
                   [Ends(Step(p, "respond", "SELECT file_versions"), 200, "history")
                       EXCEPT !.resp.history = [n \in DOMAIN rows |-> HistoryEntry(rows[n])]]]
    /\ UNCHANGED <<db, txn, state_cache, clock, uploaded, replaced, db_init>>

\* except sqlite3.Error: HTTPException(500)
HistoryStorageError(p) ==
    /\ At(p, "history", "select_history")
    /\ w' = [w EXCEPT ![p] = Ends(w[p], 500, "Database error fetching file history")]
    /\ UNCHANGED <<db, txn, state_cache, clock, uploaded, replaced, db_init>>

----------------------------------------------------------------------------
(* download_files *)

\* DownloadFilesRequestModel.encryptedFilePaths values the clients send
PathLists == { << >>, << "p1" >>, << "p2", "p1" >>, << "p1", "p1" >> }

\* DownloadedFileContentModel of a file_versions row
FileContent(row) ==
    [encryptedFilePath |-> row.encryptedFilePath,
     encryptedContent |-> row.encryptedContent, mtime |-> row.mtime,
     contentHash |-> row.contentHash, isBinary |-> row.isBinary]

\* SELECT ... FROM file_versions WHERE encryptedFilePath IN (...): the rows
\* of a requested path; there is no ORDER BY, the order is the engine's choice
SelectContent(d, paths) ==
    LET ids == { k \in DOMAIN d.file_versions :
                   \E n \in DOMAIN paths : d.file_versions[k].encryptedFilePath = paths[n] }
    IN  { [n \in DOMAIN o |-> d.file_versions[o[n]]] : o \in Orders(ids) }

\* a list filled row by row in place of the dict: one entry per row
RECURSIVE FoundFiles_PerRow(_, _)
FoundFiles_PerRow(rows, found) ==
    IF rows = << >> THEN << >>
    ELSE << FileContent(Head(rows)) >> \o FoundFiles_PerRow(Tail(rows), found)

\* found_files_dict filled row by row, a path keeping the first row met for
\* it; list(found_files_dict.values()) is in the order the paths were met
RECURSIVE FoundFiles(_, _)
FoundFiles(rows, found) ==
    IF rows = << >> THEN << >>
    ELSE IF Head(rows).encryptedFilePath \in found
         THEN FoundFiles(Tail(rows), found)
         ELSE << FileContent(Head(rows)) >>
                  \o FoundFiles(Tail(rows), found \cup { Head(rows).encryptedFilePath })

\* POST /v1/{vault_id}/downloadFiles arrives at worker p
StartFiles(p, v, paths, keep) ==
    /\ w[p].pc = "idle"
    /\ w' = [w EXCEPT ![p] =
                [Received("files", "select_content", v, None, << >>, "", keep)
                    EXCEPT !.paths = paths]]
    /\ UNCHANGED <<db, txn, state_cache, clock, uploaded, replaced, db_init>>

\* the handler without its early return: the SELECT runs for no path too
FilesSelect_AlwaysQueries(p) ==
    /\ At(p, "files", "select_content")
    /\ \E rows \in SelectContent(View(p, w[p].vault), w[p].paths) :
          w' = [w EXCEPT ![p] =
                   [Ends(Step(p, "respond", "SELECT file_versions"), 200, "files")
                       EXCEPT !.resp.files = FoundFiles(rows, {})]]
    /\ UNCHANGED <<db, txn, state_cache, clock, uploaded, replaced, db_init>>

\* if not requested_encrypted_paths: return files=[] at once; otherwise the
\* SELECT, rows = cursor.fetchall() and the response built from the rows
FilesSelect(p) ==
    /\ At(p, "files", "select_content")
    /\ \/ /\ w[p].paths = << >>
          /\ w' = [w EXCEPT ![p] = Ends(w[p], 200, "files")]
       \/ /\ w[p].paths # << >>
          /\ \E rows \in SelectContent(View(p, w[p].vault), w[p].paths) :
                w' = [w EXCEPT ![p] =
                         [Ends(Step(p, "respond", "SELECT file_versions"), 200, "files")
                             EXCEPT !.resp.files = FoundFiles(rows, {})]]
    /\ UNCHANGED <<db, txn, state_cache, clock, uploaded, replaced, db_init>>

\* except sqlite3.Error: HTTPException(500)
FilesStorageError(p) ==
    /\ At(p, "files", "select_content")
    /\ w[p].paths # << >>
    /\ w' = [w EXCEPT ![p] = Ends(w[p], 500, "Database error fetching file content")]
    /\ UNCHANGED <<db, txn, state_cache, clock, uploaded, replaced, db_init>>

----------------------------------------------------------------------------
(* get_all_files *)

\* the stableId values in the order of SQLite's BINARY collation
StableIdOrder == << "s1", "s2" >>

\* FileListEntryModel of a vault_files row
FileListEntry(row) ==
    [stableId |-> row.stableId,
     currentEncryptedFilePath |-> row.currentEncryptedFilePath]

\* the query with WHERE deleted = 0
SelectFileList_NotDeleted(d) ==
    LET present == SelectSeq(StableIdOrder,
                             LAMBDA sid : \E r \in d.vault_files :
                                             r.stableId = sid /\ r.deleted = 0)
    IN  [n \in DOMAIN present |->
            FileListEntry(CHOOSE r \in d.vault_files : r.stableId = present[n])]

\* SELECT v.stableId, v.currentEncryptedFilePath FROM vault_files v
\* ORDER BY v.stableId (the PRIMARY KEY: one row per stableId)
SelectFileList(d) ==
    LET present == SelectSeq(StableIdOrder,
                             LAMBDA sid : \E r \in d.vault_files : r.stableId = sid)
    IN  [n \in DOMAIN present |->
            FileListEntry(CHOOSE r \in d.vault_files : r.stableId = present[n])]

\* GET /v1/{vault_id}/allFiles arrives at worker p
StartList(p, v, keep) ==
    /\ w[p].pc = "idle"
    /\ w' = [w EXCEPT ![p] = Received("list", "select_list", v, None, << >>, "", keep)]
    /\ UNCHANGED <<db, txn, state_cache, clock, uploaded, replaced, db_init>>

\* rows = cursor.fetchall(); file_list = [FileListEntryModel(...) for row in rows]
ListSelect(p) ==
    /\ At(p, "list", "select_list")
    /\ w' = [w EXCEPT ![p] =
                [Ends(Step(p, "respond", "SELECT vault_files"), 200, "list")
                    EXCEPT !.resp.file_list = SelectFileList(View(p, w[p].vault))]]
    /\ UNCHANGED <<db, txn, state_cache, clock, uploaded, replaced, db_init>>

\* except sqlite3.Error: HTTPException(500)
ListStorageError(p) ==
    /\ At(p, "list", "select_list")
    /\ w' = [w EXCEPT ![p] = Ends(w[p], 500, "Database error fetching all file IDs")]
    /\ UNCHANGED <<db, txn, state_cache, clock, uploaded, replaced, db_init>>

----------------------------------------------------------------------------
(* force_push_reset *)

\* POST /v1/{vault_id}/forcePushReset arrives at worker p
StartReset(p, v, marker, keep) ==
    /\ w[p].pc = "idle"
    /\ w' = [w EXCEPT ![p] = Received("reset", "delete_versions", v, marker, << >>, "", keep)]
    /\ UNCHANGED <<db, txn, state_cache, clock, uploaded, replaced, db_init>>

\* DELETE FROM file_versions
ResetDeleteVersions(p) ==
    /\ At(p, "reset", "delete_versions")
    /\ LET v == w[p].vault
       IN  /\ CanWrite(p, v)
           /\ txn' = Written(p, v, DeleteFileVersions(View(p, v)))
    /\ w' = [w EXCEPT ![p] = Step(p, "delete_files", "DELETE file_versions")]
    /\ UNCHANGED <<db, state_cache, clock, uploaded, replaced, db_init>>

\* DELETE FROM vault_files
ResetDeleteFiles(p) ==
    /\ At(p, "reset", "delete_files")
    /\ LET v == w[p].vault
       IN  /\ CanWrite(p, v)
           /\ txn' = Written(p, v, DeleteVaultFiles(View(p, v)))
    /\ w' = [w EXCEPT ![p] = Step(p, "write_meta", "DELETE vault_files")]
    /\ UNCHANGED <<db, state_cache, clock, uploaded, replaced, db_init>>

\* the marker written as an upload writes it: only when it is set
ResetWriteMarker_OnlyIfSet(p) ==
    /\ At(p, "reset", "write_meta")
    /\ LET v == w[p].vault
       IN  /\ CanWrite(p, v)
           /\ txn' = Written(p, v, IF Truthy(w[p].marker)
                                   THEN ReplaceVaultMetadata(View(p, v), v, w[p].marker)
                                   ELSE View(p, v))
    /\ w' = [w EXCEPT ![p] = Step(p, "commit", "REPLACE vault_metadata")]
    /\ UNCHANGED <<db, state_cache, clock, uploaded, replaced, db_init>>

\* INSERT OR REPLACE INTO vault_metadata, whatever the marker (None too)
ResetWriteMarker(p) ==
    /\ At(p, "reset", "write_meta")
    /\ LET v == w[p].vault
       IN  /\ CanWrite(p, v)
           /\ txn' = Written(p, v, ReplaceVaultMetadata(View(p, v), v, w[p].marker))
    /\ w' = [w EXCEPT ![p] = Step(p, "commit", "REPLACE vault_metadata")]
    /\ UNCHANGED <<db, state_cache, clock, uploaded, replaced, db_init>>

\* db.commit()
ResetCommit(p) ==
    /\ At(p, "reset", "commit")
    /\ db' = Committed(p, w[p].vault)
    /\ txn' = Ended(p, w[p].vault)
    /\ w' = [w EXCEPT ![p] = Step(p, "invalidate", "commit")]
    /\ uploaded' = [uploaded EXCEPT ![w[p].vault] = << >>]
    /\ replaced' = [replaced EXCEPT ![w[p].vault] = << SelectMarker(db[w[p].vault], w[p].vault) >>]
    /\ UNCHANGED <<state_cache, clock, db_init>>

\* invalidate_state_cache(vault_id); response = {"status": "reset_success"}
ResetInvalidate(p) ==
    /\ At(p, "reset", "invalidate")
    /\ state_cache' = invalidate_state_cache(state_cache, w[p].vault)
    /\ w' = [w EXCEPT ![p] =
                Ends(Step(p, "respond", "invalidate_state_cache"), 200, "reset_success")]
    /\ UNCHANGED <<db, txn, clock, uploaded, replaced, db_init>>

\* the error path with db.commit() where db.rollback() belongs
ResetStorageError_Commits(p) ==
    /\ w[p].kind = "reset"
    /\ w[p].pc \in {"delete_versions", "delete_files", "write_meta", "commit"}
    /\ db' = Committed(p, w[p].vault)
    /\ txn' = Ended(p, w[p].vault)
    /\ w' = [w EXCEPT ![p] =
                Ends(Step(p, "respond", "commit"), 500, "Database error during vault reset")]
    /\ UNCHANGED <<state_cache, clock, uploaded, replaced, db_init>>

\* except sqlite3.Error: db.rollback() and HTTPException(500)
ResetStorageError(p) ==
    /\ w[p].kind = "reset"
    /\ w[p].pc \in {"delete_versions", "delete_files", "write_meta", "commit"}
    /\ txn' = Ended(p, w[p].vault)
    /\ w' = [w EXCEPT ![p] =
                Ends(Step(p, "respond", "rollback"), 500, "Database error during vault reset")]
    /\ UNCHANGED <<db, state_cache, clock, uploaded, replaced, db_init>>

----------------------------------------------------------------------------
(* The server *)

\* the response (or the error) is sent; the worker is free again
Respond(p) ==
    /\ w[p].pc = "respond"
    /\ w' = [w EXCEPT ![p] = Idle]
    /\ UNCHANGED <<db, txn, state_cache, clock, uploaded, replaced, db_init>>

\* version_time values the server has handed out or stored
StampsInUse ==
    { w[p].ts : p \in Workers }
        \cup UNION { { db[v].file_versions[k].version_time : k \in DOMAIN db[v].file_versions }
                        \cup { txn[v].work.file_versions[k].version_time :
                                 k \in DOMAIN txn[v].work.file_versions } : v \in Vaults }

\* time passes (a clock value no request has read need not be told apart
\* from the next one)
Tick ==
    /\ clock < MaxClock
    /\ isoformat(clock) \in StampsInUse
    /\ clock' = clock + 1
    /\ UNCHANGED <<db, txn, state_cache, w, uploaded, replaced, db_init>>

\* a server that has opened every vault once: the schemas exist and are
\* recorded, no vault has any row, the cache is empty.  From here get_db
\* finds the vault in initialized_dbs and only opens the connection.
Init ==
    /\ db = [v \in Vaults |-> EmptyDb]
    /\ txn = [v \in Vaults |-> NoTxn]
    /\ state_cache = << >>
    /\ clock = 0
    /\ w = [p \in Workers |-> Idle]
    /\ uploaded = [v \in Vaults |-> << >>]
    /\ replaced = [v \in Vaults |-> << >>]
    /\ initialized_dbs = Vaults
    /\ db_init_lock = NoWorker
    /\ schema = [v \in Vaults |-> "complete"]
    /\ creations = [v \in Vaults |-> [runs |-> 1, done |-> 1]]

\* the steps of the handler worker p is running
HandleUpload(p) ==
    \/ UploadGate(p) \/ UploadWriteMarker(p) \/ UploadStamp(p)
    \/ UploadReplaceFile(p) \/ UploadInsertVersion(p) \/ UploadCommit(p)
    \/ UploadInvalidate(p) \/ UploadStorageError(p)

HandleState(p) ==
    \/ StateCacheGet(p) \/ StateSelectFiles(p) \/ StateSelectMarker(p)
    \/ StateCacheSet(p) \/ StateStorageError(p)

HandleHistory(p) == HistorySelect(p) \/ HistoryStorageError(p)

HandleFiles(p) == FilesSelect(p) \/ FilesStorageError(p)

HandleList(p) == ListSelect(p) \/ ListStorageError(p)

HandleReset(p) ==
    \/ ResetDeleteVersions(p) \/ ResetDeleteFiles(p) \/ ResetWriteMarker(p)
    \/ ResetCommit(p) \/ ResetInvalidate(p) \/ ResetStorageError(p)

\* a request arrives at worker p for vault v
Arrive(p, v) ==
    \/ \E data \in Payloads, marker \in RequestMarkers :
          StartUpload(p, v, data, marker, TRUE)
    \/ StartState(p, v, TRUE)
    \/ \E stable_id \in StableIds : StartHistory(p, v, stable_id, TRUE)
    \/ \E paths \in PathLists : StartFiles(p, v, paths, TRUE)
    \/ StartList(p, v, TRUE)
    \/ \E marker \in RequestMarkers : StartReset(p, v, marker, TRUE)

\* one vault, one request at a time: each request finishes before the next
Next ==
    \/ \E p \in SoloWorkers :
          \/ HandleUpload(p) \/ HandleState(p) \/ HandleHistory(p)
          \/ HandleFiles(p) \/ HandleList(p) \/ HandleReset(p)
          \/ Respond(p)
          \/ \E v \in SoloVaults : Arrive(p, v)
    \/ Tick

Spec == Init /\ [][Next]_vars

\* the requests of the interleaved runs: uploads of no item or of one, with
\* no marker or one of two
ShortPayloads == { << >>, << File2 >> }
ConcMarkers == {None, "A", "B"}

\* the thread pool hands a request to its first free worker
FirstFree(p) == w[p].pc = "idle" /\ (p = "w2" => w["w1"].pc # "idle")

\* a request arrives at worker p for vault v while others are in flight
ArriveConc(p, v) ==
    /\ FirstFree(p)
    /\ \/ \E data \in ShortPayloads, marker \in ConcMarkers :
             StartUpload(p, v, data, marker, FALSE)
       \/ StartState(p, v, FALSE)
       \/ \E marker \in ConcMarkers : StartReset(p, v, marker, FALSE)

\* one vault, requests of two workers interleaving between their statements
NextConc ==
    \E p \in Workers :
        \/ HandleUpload(p) \/ HandleState(p) \/ HandleReset(p)
        \/ Respond(p)
        \/ \E v \in SoloVaults : ArriveConc(p, v)

SpecConc == Init /\ [][NextConc]_vars

\* the requests of the cache runs: uploads of one file with no marker or
\* with one, reads of the state, resets to no marker
CachePayloads == { << File1 >> }
CacheMarkers == {None, "A"}

\* a request arrives at worker p for vault v while others are in flight;
\* what a read of the state finds on arrival is kept
ArriveCache(p, v) ==
    /\ FirstFree(p)
    /\ \/ \E data \in CachePayloads, marker \in CacheMarkers :
             StartUpload(p, v, data, marker, FALSE)
       \/ StartState(p, v, TRUE)
       \/ StartReset(p, v, None, FALSE)

\* one vault, uploads, resets and reads of the state of two workers
\* interleaving between their statements and their cache calls
NextCache ==
    \E p \in Workers :
        \/ HandleUpload(p) \/ HandleState(p) \/ HandleReset(p)
        \/ Respond(p)
        \/ \E v \in SoloVaults : ArriveCache(p, v)

SpecCache == Init /\ [][NextCache]_vars

\* the two-vault runs: each vault has one client, which sends one request
\* at a time; worker w1 handles the requests for v1 and w2 those for v2
Served == [p \in Workers |-> IF p = "w1" THEN "v1" ELSE "v2"]

\* the requests of the two-vault runs: uploads of one file with a marker,
\* reads of the state, resets to no marker
ArriveVaults(p, v) ==
    /\ v = Served[p]
    /\ \/ StartUpload(p, v, << File1 >>, "A", FALSE)
       \/ StartState(p, v, FALSE)
       \/ StartReset(p, v, None, FALSE)

\* two vaults, the requests for one interleaving with the requests for the
\* other between their statements
NextVaults ==
    \E p \in Workers :
        \/ HandleUpload(p) \/ HandleState(p) \/ HandleReset(p)
        \/ Respond(p)
        \/ \E v \in Vaults : ArriveVaults(p, v)

SpecVaults == Init /\ [][NextVaults]_vars

\* the uploads of the read runs: of two items, for one file or for two
ReadPayloads == { << File1, File2 >>, << File1, File3 >> }

\* a request arrives at worker p for vault v while others are in flight: an
\* upload of two items, a reset, or a read of the state, the list or a history
ArriveRead(p, v) ==
    /\ FirstFree(p)
    /\ \/ \E data \in ReadPayloads : StartUpload(p, v, data, "A", FALSE)
       \/ StartReset(p, v, None, FALSE)
       \/ StartState(p, v, FALSE)
       \/ StartList(p, v, FALSE)
       \/ StartHistory(p, v, "s1", FALSE)

\* one vault, uploads of two items and reads of two workers interleaving
\* between their statements
NextRead ==
    \E p \in Workers :
        \/ HandleUpload(p) \/ HandleReset(p)
        \/ HandleState(p) \/ HandleList(p) \/ HandleHistory(p)
        \/ Respond(p)
        \/ \E v \in SoloVaults : ArriveRead(p, v)

SpecRead == Init /\ [][NextRead]_vars

----------------------------------------------------------------------------
(* get_db: the connection every handler depends on (database.py) *)

\* the CREATE statements without IF NOT EXISTS: an object that is there
\* already is an error
create_tables_Plain(objects) ==
    IF objects = "absent" THEN [schema |-> "complete", error |-> "none"]
    ELSE [schema |-> objects, error |-> "duplicate object"]

\* create_tables(db_path) running to its end: CREATE TABLE / INDEX IF NOT
\* EXISTS for the three tables, whatever the file holds already
create_tables(objects) == [schema |-> "complete", error |-> "none"]

\* the first statement of the handler, run once get_db has yielded
HandlerEntry(kind) ==
    CASE kind = "upload" -> "select_meta"
      [] kind = "state" -> "cache_get"
      [] kind = "files" -> "select_content"
      [] kind = "history" -> "select_history"
      [] kind = "list" -> "select_list"
      [] kind = "reset" -> "delete_versions"

\* GET /v1/{vault_id}/allFiles arrives at worker p; its dependency get_db
\* runs first
StartGetDb(p, v) ==
    /\ w[p].pc = "idle"
    /\ w' = [w EXCEPT ![p] = Received("list", "db_init_lock", v, None, << >>, "", FALSE)]
    /\ UNCHANGED <<db, txn, state_cache, clock, uploaded, replaced, db_init>>

\* with db_init_lock: if vault_id not in initialized_dbs.  The worker waits
\* for the lock; with the vault recorded it leaves the block at once,
\* otherwise it goes on to create the tables, holding the lock
GetDbEnter(p) ==
    /\ w[p].pc = "db_init_lock"
    /\ db_init_lock = NoWorker
    /\ IF w[p].vault \in initialized_dbs
       THEN /\ w' = [w EXCEPT ![p].pc = "connect"]
            /\ UNCHANGED db_init_lock
       ELSE /\ w' = [w EXCEPT ![p].pc = "create_tables"]
            /\ db_init_lock' = p
    /\ UNCHANGED <<db, txn, state_cache, clock, uploaded, replaced,
                   initialized_dbs, schema, creations>>

\* the connection opened inside the with block: the lock is still held
\* when the creation has succeeded and the request goes on
GetDbCreate_KeepsLock(p) ==
    /\ w[p].pc = "create_tables"
    /\ LET v == w[p].vault
       IN  /\ schema' = [schema EXCEPT ![v] = "complete"]
           /\ initialized_dbs' = initialized_dbs \cup {v}
           /\ creations' = [creations EXCEPT ![v].runs = @ + 1, ![v].done = @ + 1]
           /\ w' = [w EXCEPT ![p] = Step(p, "connect", "create_tables")]
    /\ UNCHANGED <<db, txn, state_cache, clock, uploaded, replaced, db_init_lock>>

\* create_tables(db_path); initialized_dbs[vault_id] = True; the lock is
\* released at the end of the with block, also when the creation raised
GetDbCreate(p) ==
    /\ w[p].pc = "create_tables"
    /\ LET v == w[p].vault
           made == create_tables(schema[v])
       IN  /\ schema' = [schema EXCEPT ![v] = made.schema]
           /\ IF made.error = "none"
              THEN /\ initialized_dbs' = initialized_dbs \cup {v}
                   /\ creations' = [creations EXCEPT ![v].runs = @ + 1, ![v].done = @ + 1]
                   /\ w' = [w EXCEPT ![p] = Step(p, "connect", "create_tables")]
              ELSE /\ UNCHANGED initialized_dbs
                   /\ creations' = [creations EXCEPT ![v].runs = @ + 1]
                   /\ w' = [w EXCEPT ![p] =
                               Ends(Step(p, "respond", made.error), 500,
                                    "Database initialization failed")]
    /\ db_init_lock' = NoWorker
    /\ UNCHANGED <<db, txn, state_cache, clock, uploaded, replaced>>

\* the vault recorded before its tables are created: a failed creation
\* leaves it recorded
GetDbCreateFails_Records(p) ==
    /\ w[p].pc = "create_tables"
    /\ LET v == w[p].vault
       IN  /\ creations[v].runs - creations[v].done < MaxInitFailures
           /\ schema' = [schema EXCEPT ![v] = IF @ = "complete" THEN @ ELSE "partial"]
           /\ creations' = [creations EXCEPT ![v].runs = @ + 1]
           /\ initialized_dbs' = initialized_dbs \cup {v}
    /\ db_init_lock' = NoWorker
    /\ w' = [w EXCEPT ![p] =
                Ends(Step(p, "respond", "create_tables failed"), 500,
                     "Database initialization failed")]
    /\ UNCHANGED <<db, txn, state_cache, clock, uploaded, replaced>>

\* except Exception as init_err: a statement of create_tables fails.  The
\* statements before it have taken effect; the vault is not recorded
GetDbCreateFails(p) ==
    /\ w[p].pc = "create_tables"
    /\ LET v == w[p].vault
       IN  /\ creations[v].runs - creations[v].done < MaxInitFailures
           /\ \E left \in (IF schema[v] = "complete" THEN {"complete"}
                            ELSE {schema[v], "partial"}) :
                 schema' = [schema EXCEPT ![v] = left]
           /\ creations' = [creations EXCEPT ![v].runs = @ + 1]
    /\ db_init_lock' = NoWorker
    /\ w' = [w EXCEPT ![p] =
                Ends(Step(p, "respond", "create_tables failed"), 500,
                     "Database initialization failed")]
    /\ UNCHANGED <<db, txn, state_cache, clock, uploaded, replaced, initialized_dbs>>

\* conn = sqlite3.connect(db_path); yield conn.  The dependencies of a
\* handler are solved in the order of its signature, db = Depends(get_db)
\* before api_key = Depends(get_api_key): with the configured key
\* get_api_key returns and the handler starts
GetDbConnect(p) ==
    /\ w[p].pc = "connect"
    /\ w' = [w EXCEPT ![p].pc = IF w[p].x_api_key = API_KEY
                                 THEN HandlerEntry(w[p].kind)
                                 ELSE "get_api_key"]
    /\ UNCHANGED <<db, txn, state_cache, clock, uploaded, replaced, db_init>>

\* except sqlite3.Error: HTTPException(500, "Database connection error")
GetDbConnectFails(p) ==
    /\ w[p].pc = "connect"
    /\ w' = [w EXCEPT ![p] = Ends(w[p], 500, "Database connection error")]
    /\ UNCHANGED <<db, txn, state_cache, clock, uploaded, replaced, db_init>>

GetDb(p) ==
    \/ GetDbEnter(p) \/ GetDbCreate(p) \/ GetDbCreateFails(p)
    \/ GetDbConnect(p) \/ GetDbConnectFails(p)

\* a server just started: no vault is recorded and no database file exists
InitFresh ==
    /\ db = [v \in Vaults |-> EmptyDb]
    /\ txn = [v \in Vaults |-> NoTxn]
    /\ state_cache = << >>
    /\ clock = 0
    /\ w = [p \in Workers |-> Idle]
    /\ uploaded = [v \in Vaults |-> << >>]
    /\ replaced = [v \in Vaults |-> << >>]
    /\ initialized_dbs = {}
    /\ db_init_lock = NoWorker
    /\ schema = [v \in Vaults |-> "absent"]
    /\ creations = [v \in Vaults |-> [runs |-> 0, done |-> 0]]

\* first requests for new vaults, of two workers at a time
NextInit ==
    \E p \in Workers :
        \/ GetDb(p) \/ HandleList(p)
        \/ Respond(p)
        \/ \E v \in Vaults : StartGetDb(p, v)

SpecInit == InitFresh /\ [][NextInit]_vars

\* a request arrives at worker p and its dependency get_db runs first: an
\* upload of one file under the marker "A" or a read of the state
StartServed(p, v, kind, marker, data) ==
    /\ w[p].pc = "idle"
    /\ Len(db[v].file_versions) + Pending(v, Workers) + Len(data) <= MaxVersions
    /\ w' = [w EXCEPT ![p] = Received(kind, "db_init_lock", v, marker, data, "", FALSE)]
    /\ UNCHANGED <<db, txn, state_cache, clock, uploaded, replaced, db_init>>

ArriveServe(p, v) ==
    /\ v = Served[p]
    /\ \/ StartServed(p, v, "upload", "A", << File1 >>)
       \/ StartServed(p, v, "state", None, << >>)

\* a server just started, two vaults with one client each: every request
\* opens its connection through get_db, then runs its handler
NextServe ==
    \E p \in Workers :
        \/ GetDb(p) \/ HandleUpload(p) \/ HandleState(p)
        \/ Respond(p)
        \/ \E v \in Vaults : ArriveServe(p, v)

SpecServe == InitFresh /\ [][NextServe]_vars

\* the markers of the uploads of the lifecycle runs: the second one is
\* rejected once the first is stored
LifeMarkers == {"A", "B"}

ArriveLife(p, v) ==
    /\ FirstFree(p)
    /\ \E marker \in LifeMarkers : StartServed(p, v, "upload", marker, << File1 >>)

\* the steps of the request worker p has in hand
LifeStep(p) == GetDb(p) \/ HandleUpload(p) \/ Respond(p)

\* a server just started, uploads of two workers to one vault
NextLife ==
    \E p \in Workers :
        \/ GetDb(p) \/ HandleUpload(p)
        \/ Respond(p)
        \/ \E v \in SoloVaults : ArriveLife(p, v)

\* every worker thread that can go on is scheduled again and again
SpecLife ==
    InitFresh /\ [][NextLife]_vars /\ \A p \in Workers : WF_vars(LifeStep(p))

\* an upload arrives at worker p with a key that is not the server's
StartUnauthorised(p, v) ==
    /\ w[p].pc = "idle"
    /\ w' = [w EXCEPT ![p] =
                [Received("upload", "db_init_lock", v, "A", << File1 >>, "", FALSE)
                    EXCEPT !.x_api_key = WrongKey]]
    /\ UNCHANGED <<db, txn, state_cache, clock, uploaded, replaced, db_init>>

\* if x_api_key != API_KEY: raise HTTPException(401, "Invalid API Key");
\* the handler is not called and get_db closes its connection
GetApiKeyRejects(p) ==
    /\ w[p].pc = "get_api_key"
    /\ w[p].x_api_key # API_KEY
    /\ w' = [w EXCEPT ![p] = Ends(w[p], 401, "Invalid API Key")]
    /\ UNCHANGED <<db, txn, state_cache, clock, uploaded, replaced, db_init>>

ArriveAuth(p, v) ==
    /\ FirstFree(p)
    /\ \/ StartServed(p, v, "upload", "A", << File1 >>)
       \/ StartUnauthorised(p, v)

\* a server just started, uploads of two workers to one vault, some of them
\* with a wrong key
NextAuth ==
    \E p \in Workers :
        \/ GetDb(p) \/ GetApiKeyRejects(p) \/ HandleUpload(p)
        \/ Respond(p)
        \/ \E v \in SoloVaults : ArriveAuth(p, v)

SpecAuth == InitFresh /\ [][NextAuth]_vars

----------------------------------------------------------------------------
(* caching.py called on its own, as its callers and its tests may call it *)

\* StateResponseModel values a caller stores
Snapshots ==
    { StateResponse(rows, marker) :
        rows \in { {}, { FileRow(File1) }, { FileRow(File2), FileRow(File3) } },
        marker \in {None, "A"} }

\* the call the caller p has made last, with its argument or its result
Called(name, vault_id, detail, response) ==
    [Idle EXCEPT !.kind = name, !.vault = vault_id, !.resp.detail = detail,
                 !.resp.state = response]

\* get_cached_state(vault_id): state_cache.get(vault_id)
CallGet(p, vault_id) ==
    /\ w' = [w EXCEPT ![p] =
                IF Cached(state_cache, vault_id)
                THEN Called("get_cached_state", vault_id, "cached", state_cache[vault_id])
                ELSE Called("get_cached_state", vault_id, "None", NoSnapshot)]
    /\ UNCHANGED <<db, txn, state_cache, clock, uploaded, replaced, db_init>>

\* set_cached_state(vault_id, response)
CallSet(p, vault_id, response) ==
    /\ state_cache' = set_cached_state(state_cache, vault_id, response)
    /\ w' = [w EXCEPT ![p] = Called("set_cached_state", vault_id, "", response)]
    /\ UNCHANGED <<db, txn, clock, uploaded, replaced, db_init>>

\* invalidate_state_cache(vault_id)
CallInvalidate(p, vault_id) ==
    /\ state_cache' = invalidate_state_cache(state_cache, vault_id)
    /\ w' = [w EXCEPT ![p] = Called("invalidate_state_cache", vault_id, "", NoSnapshot)]
    /\ UNCHANGED <<db, txn, clock, uploaded, replaced, db_init>>

\* any call, for any vault, in any order
NextCalls ==
    \E p \in SoloWorkers, vault_id \in Vaults :
        \/ CallGet(p, vault_id)
        \/ \E response \in Snapshots : CallSet(p, vault_id, response)
        \/ CallInvalidate(p, vault_id)

SpecCalls == Init /\ [][NextCalls]_vars

\* the requests of the timestamp runs: uploads of one file, without a
\* marker or with one
StampMarkers == {None, "A"}

ArriveStamp(p, v) ==
    /\ FirstFree(p)
    /\ \E marker \in StampMarkers : StartUpload(p, v, << File1 >>, marker, FALSE)

\* one vault, uploads of two workers interleaving between their statements
\* while time passes
NextStamp ==
    \/ \E p \in Workers :
          \/ HandleUpload(p)
          \/ Respond(p)
          \/ \E v \in SoloVaults : ArriveStamp(p, v)
    \/ Tick

SpecStamp == Init /\ [][NextStamp]_vars

\* the requests of the soft-delete runs: uploads of one deleted file and
\* reads of the state, which keep what they found on arrival
ArriveDeleted(p, v) ==
    /\ FirstFree(p)
    /\ \/ StartUpload(p, v, << File2 >>, "A", FALSE)
       \/ StartState(p, v, TRUE)

\* one vault, uploads and reads of the state of two workers interleaving
NextDeleted ==
    \E p \in Workers :
        \/ HandleUpload(p) \/ HandleState(p)
        \/ Respond(p)
        \/ \E v \in SoloVaults : ArriveDeleted(p, v)

SpecDeleted == Init /\ [][NextDeleted]_vars

----------------------------------------------------------------------------
(* Properties *)

\* the marker stored (and committed) for vault v
Marker(v) == SelectMarker(db[v], v)

\* worker p's handler of a request of this kind has ended; its response,
\* or its error, is about to be sent
Responded(p, kind) == w[p].kind = kind /\ w[p].pc = "respond"

\* the marker vault v stored when worker p's request arrived
MarkerBefore(p) == SelectMarker(w[p].pre.db, w[p].vault)

\* the handler ended in except sqlite3.Error
StorageFailed(p) == w[p].resp.status = 500

KeyMismatch(p) ==
    w[p].resp.status = 409 /\ w[p].resp.detail = "Encryption Key Mismatch"

EncryptionRequired(p) ==
    /\ w[p].resp.status = 409
    /\ w[p].resp.detail = "Encryption Mismatch: Server expects encrypted data."

Succeeded(p) == w[p].resp.status = 200

\* C1: the committed marker of a vault goes from a non-null value to a
\* different value only in the commit of a forceReset, never in a step of an
\* upload or of a getState, however the requests interleave.
C1_MarkerReplacedOnlyByReset ==
    [][ \A v \in Vaults :
          (Marker(v) # None /\ SelectMarker(db'[v], v) # Marker(v))
              => \E p \in Workers :
                    /\ w[p].kind = "reset" /\ w[p].vault = v
                    /\ w[p].pc = "commit" /\ w'[p].pc = "invalidate" ]_vars

\* C2 as stated: an upload with a set marker that differs from the stored
\* non-null marker ends in 409 "Encryption Key Mismatch" (unless the read of
\* the stored marker failed) and the vault_files rows are as before.
C2_ConflictOnNonNullStored ==
    \A p \in Workers :
        (/\ Responded(p, "upload")
         /\ Truthy(w[p].marker)
         /\ MarkerBefore(p) # None
         /\ w[p].marker # MarkerBefore(p))
            => /\ KeyMismatch(p) \/ StorageFailed(p)
               /\ db[w[p].vault].vault_files = w[p].pre.db.vault_files

\* C2 amended: an upload with a set marker that differs from the stored
\* marker, the stored marker being neither null nor empty, ends in 409
\* "Encryption Key Mismatch" (unless the read of the stored marker failed)
\* and the vault_files rows are as before.
C2_ConflictRejected ==
    \A p \in Workers :
        (/\ Responded(p, "upload")
         /\ Truthy(w[p].marker)
         /\ Truthy(MarkerBefore(p))
         /\ w[p].marker # MarkerBefore(p))
            => /\ KeyMismatch(p) \/ StorageFailed(p)
               /\ db[w[p].vault].vault_files = w[p].pre.db.vault_files

\* an upload of marker "B" was rejected as a conflict by a vault that holds
\* files under marker "A"
C2_Witness ==
    \E p \in Workers :
        /\ Responded(p, "upload") /\ KeyMismatch(p)
        /\ w[p].marker = "B" /\ MarkerBefore(p) = "A"
        /\ w[p].data # << >>
        /\ w[p].pre.db.vault_files # {}

\* C3 as stated: an upload without marker to a vault whose stored marker is
\* non-null ends in 409 "Server expects encrypted data", whatever its items
\* (unless the read of the stored marker failed).
C3_RequiredOnNonNullStored ==
    \A p \in Workers :
        (Responded(p, "upload") /\ w[p].marker = None /\ MarkerBefore(p) # None)
            => EncryptionRequired(p) \/ StorageFailed(p)

\* C3 amended: an upload without marker to a vault whose stored marker is
\* neither null nor empty ends in 409 "Server expects encrypted data",
\* whatever its items (unless the read of the stored marker failed).
C3_MissingMarkerRejected ==
    \A p \in Workers :
        (Responded(p, "upload") /\ w[p].marker = None /\ Truthy(MarkerBefore(p)))
            => EncryptionRequired(p) \/ StorageFailed(p)

\* an upload of two items without marker was rejected by a marked vault
C3_Witness ==
    \E p \in Workers :
        /\ Responded(p, "upload") /\ EncryptionRequired(p)
        /\ w[p].marker = None /\ MarkerBefore(p) = "A"
        /\ Len(w[p].data) = 2

\* C4: an upload to a vault whose stored marker is unset is never rejected by
\* the gate, whatever marker it brings; when it succeeds the stored marker is
\* the incoming one if that is set (a non-empty string) and is still unset
\* otherwise; it fails only on a storage error, which leaves the marker unset.
C4_UnmarkedVaultAcceptsAny ==
    \A p \in Workers :
        (Responded(p, "upload") /\ MarkerBefore(p) = None)
            => /\ Succeeded(p) \/ StorageFailed(p)
               /\ Succeeded(p) =>
                     Marker(w[p].vault) = IF Truthy(w[p].marker) THEN w[p].marker ELSE None
               /\ StorageFailed(p) => Marker(w[p].vault) = None

\* an upload of marker "A" succeeded on a vault that a reset had left with
\* a metadata row of NULL marker, and "A" is stored now
C4_Witness ==
    \E p \in Workers :
        /\ Responded(p, "upload") /\ Succeeded(p)
        /\ w[p].pre.db.vault_metadata # {} /\ MarkerBefore(p) = None
        /\ w[p].marker = "A" /\ Marker(w[p].vault) = "A"

\* C5: an upload whose marker equals the stored non-null marker is never
\* rejected by the gate (it succeeds unless storage fails), and the stored
\* marker is that same value afterwards.
C5_SameMarkerAccepted ==
    \A p \in Workers :
        (Responded(p, "upload") /\ MarkerBefore(p) # None /\ w[p].marker = MarkerBefore(p))
            => /\ Succeeded(p) \/ StorageFailed(p)
               /\ Marker(w[p].vault) = w[p].marker

\* a second upload of marker "A" succeeded after a first one had stored "A"
\* with its item
C5_Witness ==
    \E p \in Workers :
        /\ Responded(p, "upload") /\ Succeeded(p)
        /\ w[p].marker = "A" /\ MarkerBefore(p) = "A"
        /\ Len(uploaded[w[p].vault]) = 2 /\ Len(w[p].data) = 1

\* C6: an upload the gate rejected (409) has executed one storage statement,
\* the SELECT of the stored marker, and no commit, rollback or cache call;
\* vault_files, file_versions, the stored marker and the state cache are as
\* the request found them and no transaction is open.
C6_RejectedUploadWritesNothing ==
    \A p \in Workers :
        (Responded(p, "upload") /\ w[p].resp.status = 409)
            => /\ w[p].log = << "SELECT vault_metadata" >>
               /\ db[w[p].vault] = w[p].pre.db
               /\ txn[w[p].vault] = NoTxn
               /\ state_cache = w[p].pre.cache

\* an upload with items was rejected by a vault that holds files, versions
\* and a cached state
C6_Witness ==
    \E p \in Workers :
        /\ Responded(p, "upload") /\ w[p].resp.status = 409
        /\ w[p].data # << >>
        /\ w[p].pre.db.file_versions # << >>
        /\ Cached(w[p].pre.cache, w[p].vault)

\* the last item of the payload with the stableId of its k-th item
LastOf(data, k) ==
    data[CHOOSE j \in DOMAIN data :
            /\ data[j].stableId = data[k].stableId
            /\ \A i \in DOMAIN data : data[i].stableId = data[k].stableId => i <= j]

\* C7: an upload that ends in a storage error has rolled back: the vault's
\* tables are as the request found them (none of its items, nor its marker,
\* was added) and no transaction is open; an upload that succeeds has added
\* one version row per item, in order, holds a state row for every item and
\* has stored its marker.
C7_UploadAtomic ==
    \A p \in Workers :
        Responded(p, "upload") =>
            LET v == w[p].vault
                data == w[p].data
            IN  /\ StorageFailed(p) =>
                      /\ db[v] = w[p].pre.db
                      /\ txn[v] = NoTxn
                      /\ w[p].log[Len(w[p].log)] = "rollback"
                /\ Succeeded(p) =>
                      /\ db[v].file_versions =
                            w[p].pre.db.file_versions
                                \o [k \in DOMAIN data |-> VersionRow(data[k], w[p].ts)]
                      /\ \A k \in DOMAIN data : FileRow(LastOf(data, k)) \in db[v].vault_files
                      /\ Truthy(w[p].marker) => Marker(v) = w[p].marker

\* an upload failed after it had written its marker and its first item
C7_Witness ==
    \E p \in Workers :
        /\ Responded(p, "upload") /\ StorageFailed(p)
        /\ Len(w[p].data) = 2
        /\ \E n \in DOMAIN w[p].log : w[p].log[n] = "REPLACE vault_metadata"
        /\ \E n \in DOMAIN w[p].log : w[p].log[n] = "INSERT file_versions"

\* the items of stableId sid among the items its
ItemsOf(its, sid) == SelectSeq(its, LAMBDA f : f.stableId = sid)

\* C8: in every state a vault holds, for every stableId, no vault_files row
\* if no item of that id was uploaded since the last reset, and otherwise
\* exactly one row: that of the item of that id committed last, whatever
\* the mtime values.
C8_OneRowLastWriteWins ==
    \A v \in Vaults : \A sid \in StableIds :
        LET rows == { r \in db[v].vault_files : r.stableId = sid }
            its == ItemsOf(uploaded[v], sid)
        IN  /\ \A r \in db[v].vault_files : r.stableId \in StableIds
            /\ rows = IF its = << >> THEN {} ELSE { FileRow(its[Len(its)]) }

\* the row of s1 is the one uploaded last, of mtime 5, after one of mtime 6
C8_Witness ==
    \E v \in Vaults :
        /\ uploaded[v] = << File1, File2 >>
        /\ \E r \in db[v].vault_files : r.stableId = "s1" /\ r.currentMtime = 5 /\ r.deleted = 1

\* C9: in every state the number of file_versions rows of a stableId is the
\* number of items of that id in the uploads committed since the last reset;
\* an upload that succeeded has added as many rows as it has items, and one
\* that was rejected or failed has added none.
C9_OneVersionPerItem ==
    /\ \A v \in Vaults : \A sid \in StableIds :
          Len(ItemsOf(db[v].file_versions, sid)) = Len(ItemsOf(uploaded[v], sid))
    /\ \A v \in Vaults : Len(db[v].file_versions) = Len(uploaded[v])
    /\ \A p \in Workers :
          Responded(p, "upload") =>
              Len(db[w[p].vault].file_versions) =
                  Len(w[p].pre.db.file_versions)
                      + (IF Succeeded(p) THEN Len(w[p].data) ELSE 0)

\* an upload of two items of the same stableId succeeded and the vault
\* holds two versions of it
C9_Witness ==
    \E p \in Workers :
        /\ Responded(p, "upload") /\ Succeeded(p)
        /\ w[p].data = << File1, File2 >>
        /\ Len(ItemsOf(db[w[p].vault].file_versions, "s1")) = 2

\* the instant a version_time text stands for, in clock ticks
Instant(text) == IF Len(text) = 1 THEN 2 * text[1] ELSE 2 * text[1] + text[2]

\* how often the entry e occurs in the sequence h
Occurrences(h, e) == Cardinality({ n \in DOMAIN h : h[n] = e })

\* C10: a getHistory that succeeds returns the entries of exactly the
\* file_versions rows of the asked stableId, each as often as it is stored
\* and none of another stableId, the later version_time first; with no such
\* row it returns the empty list, and that is a success.
C10_HistoryNewestFirst ==
    \A p \in Workers :
        (Responded(p, "history") /\ Succeeded(p)) =>
            LET h == w[p].resp.history
                stored == db[w[p].vault].file_versions
                mine == ItemsOf(stored, w[p].stable_id)
            IN  /\ Len(h) = Len(mine)
                /\ \A n \in DOMAIN mine :
                      Occurrences(h, HistoryEntry(mine[n]))
                          = Occurrences(mine, mine[n])
                /\ \A i, j \in DOMAIN h :
                      i < j => Instant(h[i].version_time) >= Instant(h[j].version_time)
                /\ mine = << >> => h = << >>

\* a history of two versions written at different times, the later first,
\* from a vault that also holds nothing else of that id
C10_Witness ==
    \E p \in Workers :
        /\ Responded(p, "history") /\ Succeeded(p)
        /\ Len(w[p].resp.history) = 2
        /\ Instant(w[p].resp.history[1].version_time)
              > Instant(w[p].resp.history[2].version_time)

\* the sequence a is an initial part of the sequence b
IsPrefix(a, b) == Len(a) <= Len(b) /\ \A n \in DOMAIN a : a[n] = b[n]

\* the step is the commit of a reset of vault v
ResetCommits(v) ==
    \E p \in Workers :
        /\ w[p].kind = "reset" /\ w[p].vault = v
        /\ w[p].pc = "commit" /\ w'[p].pc = "invalidate"

\* C11: no step of an upload, a getState, a getContent, a getHistory or a
\* listFiles removes or changes a committed file_versions row: the rows before
\* the step are the first rows after it, unless the step is the commit of a
\* forceReset; inside its transaction an upload only appends as well, and
\* when a request other than a reset ends the rows it found are still there.
C11_VersionsAppendOnly ==
    [][ /\ \A v \in Vaults :
             \/ IsPrefix(db[v].file_versions, db'[v].file_versions)
             \/ ResetCommits(v)
        /\ \A v \in Vaults :
             (txn[v].owner \in Workers /\ w[txn[v].owner].kind = "upload")
                 => IsPrefix(db[v].file_versions, txn[v].work.file_versions)
        /\ \A p \in Workers :
             (w'[p].pc = "respond" /\ w'[p].kind # "reset")
                 => IsPrefix(w'[p].pre.db.file_versions,
                             db'[w'[p].vault].file_versions) ]_vars

\* an upload has replaced the vault_files row of a stableId and the version
\* stored for that id before is still the first row
C11_Witness ==
    \E p \in Workers :
        /\ Responded(p, "upload") /\ Succeeded(p)
        /\ w[p].pre.db.file_versions # << >>
        /\ w[p].data # << >>
        /\ w[p].pre.db.file_versions[1].stableId = w[p].data[1].stableId
        /\ FileRow(LastOf(w[p].data, 1)) \notin w[p].pre.db.vault_files
        /\ db[w[p].vault].file_versions[1] = w[p].pre.db.file_versions[1]
        /\ Len(db[w[p].vault].file_versions) = 2

\* C12 as stated, for getState: a getState that arrives while the last
\* mutation committed to the vault is a forceReset and no request is in
\* flight (the reset has returned), and that is answered from the cache entry
\* it found on arrival, returns an empty state map.
C12_StateEmptyAfterReset ==
    \A p \in Workers :
        (/\ Responded(p, "state") /\ Succeeded(p)
         /\ w[p].pre.busy = {}
         /\ w[p].pre.replaced # << >>
         /\ Cached(w[p].pre.cache, w[p].vault)
         /\ w[p].resp.state = w[p].pre.cache[w[p].vault])
            => DOMAIN w[p].resp.state.state = {}

\* C13 as stated: a forceReset ends in success or in a storage error and a
\* successful one has stored its marker; of the uploads that arrive while the
\* reset is the vault's last committed mutation, one with the reset's marker
\* succeeds and one with the marker the reset replaced, when that differs,
\* is rejected with "Encryption Key Mismatch" (storage errors aside).
C13_OldMarkerAlwaysConflicts ==
    /\ \A p \in Workers :
          Responded(p, "reset") =>
              /\ Succeeded(p) \/ StorageFailed(p)
              /\ Succeeded(p) => Marker(w[p].vault) = w[p].marker
    /\ \A p \in Workers :
          (Responded(p, "upload") /\ w[p].pre.replaced # << >> /\ ~StorageFailed(p)) =>
              LET old == w[p].pre.replaced[1]
                  new == MarkerBefore(p)
              IN  /\ w[p].marker = new => Succeeded(p)
                  /\ (w[p].marker = old /\ old # new) => KeyMismatch(p)

\* C13 amended: a forceReset ends in success or in a storage error, whatever
\* the stored and the incoming marker, and a successful one has stored its
\* marker (null and empty too); of the uploads that arrive while the reset is
\* the vault's last committed mutation (storage errors aside), one with the
\* reset's marker succeeds; one with the different marker the reset replaced
\* is rejected with "Encryption Key Mismatch" when both markers are set, is
\* rejected with "Server expects encrypted data" when only the reset's is,
\* and succeeds when the reset's marker is null or empty.
C13_ResetBypassesGate ==
    /\ \A p \in Workers :
          Responded(p, "reset") =>
              /\ Succeeded(p) \/ StorageFailed(p)
              /\ Succeeded(p) =>
                    /\ Marker(w[p].vault) = w[p].marker
                    /\ replaced[w[p].vault] = << MarkerBefore(p) >>
    /\ \A p \in Workers :
          (Responded(p, "upload") /\ w[p].pre.replaced # << >> /\ ~StorageFailed(p)) =>
              LET old == w[p].pre.replaced[1]
                  new == MarkerBefore(p)
              IN  /\ w[p].marker = new => Succeeded(p)
                  /\ (w[p].marker = old /\ old # new) =>
                        IF Truthy(new)
                        THEN IF Truthy(old) THEN KeyMismatch(p) ELSE EncryptionRequired(p)
                        ELSE Succeeded(p)

\* a reset has replaced the marker "A" by "B", and the upload after it, with
\* the marker "A", was rejected as a conflict
C13_Witness ==
    \E p \in Workers :
        /\ Responded(p, "upload") /\ KeyMismatch(p)
        /\ w[p].pre.replaced = << "A" >>
        /\ MarkerBefore(p) = "B" /\ w[p].marker = "A"

\* C14: a forceReset that ends in a storage error has rolled back and reports
\* "Database error during vault reset": vault_files, file_versions and the
\* stored marker are as the request found them, no transaction is open, and
\* the cache has not been invalidated (it is as the request found it and the
\* handler made no cache call).
C14_ResetAtomic ==
    \A p \in Workers :
        (Responded(p, "reset") /\ StorageFailed(p)) =>
            /\ w[p].resp.detail = "Database error during vault reset"
            /\ w[p].log[Len(w[p].log)] = "rollback"
            /\ db[w[p].vault] = w[p].pre.db
            /\ txn[w[p].vault] = NoTxn
            /\ state_cache = w[p].pre.cache
            /\ \A n \in DOMAIN w[p].log : w[p].log[n] # "invalidate_state_cache"

\* a reset failed after it had deleted the versions and the files of a vault
\* that holds files, a marker and a cached state
C14_Witness ==
    \E p \in Workers :
        /\ Responded(p, "reset") /\ StorageFailed(p)
        /\ \E n \in DOMAIN w[p].log : w[p].log[n] = "DELETE vault_files"
        /\ db[w[p].vault].vault_files # {}
        /\ db[w[p].vault].file_versions # << >>
        /\ Marker(w[p].vault) = "A" /\ w[p].marker = "B"
        /\ Cached(state_cache, w[p].vault)

\* C15 as stated: a getState that arrives when no request is in flight (every
\* upload and forceReset committed so far has returned its response) and that
\* is answered from the cache entry it found on arrival returns the snapshot
\* of the rows and the marker that were committed when it arrived.
C15_CacheNeverStale ==
    \A p \in Workers :
        (/\ Responded(p, "state") /\ Succeeded(p)
         /\ w[p].pre.busy = {}
         /\ Cached(w[p].pre.cache, w[p].vault)
         /\ w[p].resp.state = w[p].pre.cache[w[p].vault])
            => w[p].resp.state = StateResponse(w[p].pre.db.vault_files, MarkerBefore(p))

\* C16: with one request at a time, a getState that succeeds returns the
\* snapshot of the vault_files rows and the marker committed at that moment,
\* from the cache or not; between requests a cache entry is the snapshot of
\* the committed rows and marker; when an upload or a forceReset has
\* succeeded the vault has no cache entry, whether it had one before or not.
C16_SequentialStateIsCurrent ==
    /\ \A p \in Workers :
          (Responded(p, "state") /\ Succeeded(p)) =>
              w[p].resp.state =
                  StateResponse(db[w[p].vault].vault_files, Marker(w[p].vault))
    /\ \A v \in Vaults :
          ((\A p \in Workers : w[p].pc = "idle") /\ Cached(state_cache, v)) =>
              state_cache[v] = StateResponse(db[v].vault_files, Marker(v))
    /\ \A p \in Workers :
          ((Responded(p, "upload") \/ Responded(p, "reset")) /\ Succeeded(p)) =>
              ~Cached(state_cache, w[p].vault)

\* a getState after the upload that replaced a file's row found no cache
\* entry and returned the new row and the marker
C16_Witness ==
    \E p \in Workers :
        /\ Responded(p, "state") /\ Succeeded(p)
        /\ w[p].resp.detail = "db"
        /\ uploaded[w[p].vault] = << File1, File2 >>
        /\ w[p].resp.state.state["s1"].currentEncryptedFilePath = "p2"
        /\ w[p].resp.state.encryptionValidation = "A"

\* C17: a successful upload and a successful forceReset have committed once
\* and invalidated the cache once, the invalidation being the call right
\* after the commit and the last call before the response; at no moment has
\* any handler invalidated the cache without having committed before, and a
\* handler about to invalidate holds no open transaction.
C17_InvalidateOnceAfterCommit ==
    /\ \A p \in Workers :
          ((Responded(p, "upload") \/ Responded(p, "reset")) /\ Succeeded(p)) =>
              LET log == w[p].log
              IN  /\ Occurrences(log, "invalidate_state_cache") = 1
                  /\ Occurrences(log, "commit") = 1
                  /\ Len(log) >= 2
                  /\ log[Len(log)] = "invalidate_state_cache"
                  /\ log[Len(log) - 1] = "commit"
                  /\ ~Cached(state_cache, w[p].vault)
    /\ \A p \in Workers : \A n \in DOMAIN w[p].log :
          w[p].log[n] = "invalidate_state_cache" =>
              \E m \in 1..(n - 1) : w[p].log[m] = "commit"
    /\ \A p \in Workers :
          w[p].pc = "invalidate" =>
              /\ txn[w[p].vault].owner # p
              /\ w[p].log[Len(w[p].log)] = "commit"

\* a reset of a vault with files and a cached state has succeeded and the
\* cache entry is gone
C17_Witness ==
    \E p \in Workers :
        /\ Responded(p, "reset") /\ Succeeded(p)
        /\ w[p].pre.db.file_versions # << >>
        /\ Cached(w[p].pre.cache, w[p].vault)
        /\ ~Cached(state_cache, w[p].vault)

\* the handler made a call to the state cache
CacheCalls(log) ==
    { n \in DOMAIN log :
        log[n] \in {"get_cached_state", "set_cached_state", "invalidate_state_cache"} }

\* C18: an upload that ends in a gate rejection (409) or in a storage error
\* (500) has made no call to the state cache, and the cache is as the request
\* found it: an entry of the vault is still there and the same, and none has
\* appeared.
C18_FailedUploadKeepsCache ==
    \A p \in Workers :
        (Responded(p, "upload") /\ w[p].resp.status \in {409, 500}) =>
            /\ CacheCalls(w[p].log) = {}
            /\ state_cache = w[p].pre.cache
            /\ Cached(w[p].pre.cache, w[p].vault) =>
                  /\ Cached(state_cache, w[p].vault)
                  /\ state_cache[w[p].vault] = w[p].pre.cache[w[p].vault]

\* an upload failed at its commit, after its writes, on a vault with a
\* cached state of one file
C18_Witness ==
    \E p \in Workers :
        /\ Responded(p, "upload") /\ StorageFailed(p)
        /\ w[p].log = << "SELECT vault_metadata", "REPLACE vault_files",
                         "INSERT file_versions", "rollback" >>
        /\ Cached(state_cache, w[p].vault)
        /\ DOMAIN state_cache[w[p].vault].state # {}

\* C19: a getState that finds a cache entry returns it, having made the one
\* call get_cached_state: no SELECT and no cache write, the cache is as
\* before; a getState that finds none and succeeds has run the SELECT of
\* vault_files and the SELECT of the marker, returns the snapshot of what
\* they read, which is all committed rows and the committed marker, and has
\* stored that same snapshot as the vault's cache entry, the other entries
\* unchanged.
C19_StateHitAndMiss ==
    \A p \in Workers :
        (Responded(p, "state") /\ Succeeded(p)) =>
            LET v == w[p].vault
            IN  IF Cached(w[p].pre.cache, v)
                THEN /\ w[p].resp.state = w[p].pre.cache[v]
                     /\ w[p].log = << "get_cached_state" >>
                     /\ state_cache = w[p].pre.cache
                ELSE /\ w[p].log = << "get_cached_state", "SELECT vault_files",
                                      "SELECT vault_metadata", "set_cached_state" >>
                     /\ w[p].resp.state = StateResponse(db[v].vault_files, Marker(v))
                     /\ DOMAIN w[p].resp.state.state
                           = { r.stableId : r \in db[v].vault_files }
                     /\ state_cache = set_cached_state(w[p].pre.cache, v, w[p].resp.state)

\* a getState was answered from a cache entry of two files and the marker "A"
C19_Witness ==
    \E p \in Workers :
        /\ Responded(p, "state") /\ Succeeded(p)
        /\ w[p].resp.detail = "cached"
        /\ DOMAIN w[p].resp.state.state = {"s1", "s2"}
        /\ w[p].resp.state.encryptionValidation = "A"

\* C20: a getState that ends in a storage error had missed the cache, reports
\* "Database error fetching state" and has not written the cache: the vault
\* has no entry and the cache is as the request found it.
C20_FailedReadCachesNothing ==
    \A p \in Workers :
        (Responded(p, "state") /\ StorageFailed(p)) =>
            /\ w[p].resp.detail = "Database error fetching state"
            /\ ~Cached(w[p].pre.cache, w[p].vault)
            /\ ~Cached(state_cache, w[p].vault)
            /\ state_cache = w[p].pre.cache
            /\ \A n \in DOMAIN w[p].log : w[p].log[n] # "set_cached_state"

\* a getState of a vault with a file failed at the SELECT of the marker,
\* after it had read the rows
C20_Witness ==
    \E p \in Workers :
        /\ Responded(p, "state") /\ StorageFailed(p)
        /\ w[p].log = << "get_cached_state", "SELECT vault_files" >>
        /\ w[p].rows # {}

\* the entry of vault u, or the lack of one, is the same after the step
SameEntry(u) ==
    /\ Cached(state_cache', u) <=> Cached(state_cache, u)
    /\ Cached(state_cache, u) => state_cache'[u] = state_cache[u]

\* C21: the cache is a map keyed by vault id.  A get of v returns the entry
\* of v when there is one and a miss otherwise, and changes nothing; a put of
\* (v, s) makes s the entry of v, replacing one that is there, and changes no
\* other vault's entry; an invalidate of v leaves v without entry, changes no
\* other vault's entry, and changes nothing at all when v has no entry.  So
\* the entry of v is at any time the snapshot of the latest put of v that no
\* invalidate of v has followed.
C21_CacheIsMap ==
    [][ \A p \in Workers :
          w'[p] # w[p] =>
              LET c == w'[p]
                  v == c.vault
              IN  /\ c.kind = "get_cached_state" =>
                        /\ state_cache' = state_cache
                        /\ IF Cached(state_cache, v)
                           THEN c.resp.detail = "cached" /\ c.resp.state = state_cache[v]
                           ELSE c.resp.detail = "None"
                  /\ c.kind = "set_cached_state" =>
                        /\ Cached(state_cache', v)
                        /\ state_cache'[v] = c.resp.state
                        /\ \A u \in Vaults \ {v} : SameEntry(u)
                  /\ c.kind = "invalidate_state_cache" =>
                        /\ ~Cached(state_cache', v)
                        /\ \A u \in Vaults \ {v} : SameEntry(u)
                        /\ ~Cached(state_cache, v) => state_cache' = state_cache ]_vars

\* the entry of v1 has been invalidated and the entry put for v2, of two
\* files, is still there
C21_Witness ==
    \E p \in Workers :
        /\ w[p].kind = "invalidate_state_cache" /\ w[p].vault = "v1"
        /\ ~Cached(state_cache, "v1")
        /\ Cached(state_cache, "v2")
        /\ DOMAIN state_cache["v2"].state = {"s1", "s2"}

\* the vault of the request worker p works on in this step
VaultOfStep(p) == IF w[p].kind = "none" THEN w'[p].vault ELSE w[p].vault

\* C22: a step of an upload, a forceReset or a getState on one vault leaves
\* every other vault's committed tables (vault_files, file_versions, marker),
\* open transaction and cache entry as they are; a getState reads the rows,
\* the marker and the cache entry of its own vault; and the vault_files rows
\* a vault holds are those of the items uploaded to that vault since its own
\* last reset, whatever was done to the other vault.
C22_VaultsIsolated ==
    [][ /\ \A p \in Workers :
             w'[p] # w[p] =>
                 /\ \A b \in Vaults \ {VaultOfStep(p)} :
                       /\ db'[b] = db[b]
                       /\ txn'[b] = txn[b]
                       /\ SameEntry(b)
                 /\ (w[p].kind = "state" /\ w[p].pc = "cache_get" /\ w'[p].pc = "respond")
                       => w'[p].resp.state = state_cache[w[p].vault]
                 /\ (w[p].kind = "state" /\ w'[p].pc = "select_meta")
                       => w'[p].rows = db[w[p].vault].vault_files
                 /\ (w[p].kind = "state" /\ w'[p].pc = "cache_set")
                       => w'[p].existing = Marker(w[p].vault)
        /\ \A v \in Vaults : \A sid \in StableIds :
             LET its == ItemsOf(uploaded[v], sid)
             IN  { r \in db[v].vault_files : r.stableId = sid }
                    = IF its = << >> THEN {} ELSE { FileRow(its[Len(its)]) } ]_vars

\* a reset of v1, which held a file, has succeeded while v2 holds a file,
\* a version, the marker "A" and a cache entry
C22_Witness ==
    \E p \in Workers :
        /\ Responded(p, "reset") /\ Succeeded(p) /\ w[p].vault = "v1"
        /\ replaced["v1"] = << "A" >>
        /\ db["v1"] = [EmptyDb EXCEPT !.vault_metadata =
                          { [vault_id |-> "v1", encryption_validation |-> None] }]
        /\ db["v2"].vault_files = { FileRow(File1) }
        /\ Len(db["v2"].file_versions) = 1
        /\ Marker("v2") = "A"
        /\ Cached(state_cache, "v2")
        /\ DOMAIN state_cache["v2"].state = {"s1"}

\* the tables d after the items of data, written at time ts
RECURSIVE Applied(_, _, _)
Applied(d, data, ts) ==
    IF data = << >> THEN d
    ELSE Applied(InsertFileVersion(ReplaceVaultFile(d, Head(data)), Head(data), ts),
                 Tail(data), ts)

\* the tables that hold whole uploads only: d, and d after any uploads of
\* ReadPayloads of no more than n items together
RECURSIVE WholeUploads(_, _)
WholeUploads(d, n) ==
    {d} \cup UNION { WholeUploads(Applied(d, data, isoformat(0)), n - Len(data)) :
                       data \in { x \in ReadPayloads : Len(x) <= n } }

\* C23: whatever a listFiles, a getState or a getHistory returns while
\* uploads of two items run beside it is what it would return from tables
\* holding whole uploads only: both items of an upload show or neither does.
C23_NoPartialUpload ==
    \A p \in Workers :
        (w[p].pc = "respond" /\ Succeeded(p)) =>
            LET whole == WholeUploads(EmptyDb, MaxVersions)
            IN  /\ w[p].kind = "list" =>
                      \E d \in whole : w[p].resp.file_list = SelectFileList(d)
                /\ w[p].kind = "state" =>
                      \E d \in whole :
                          w[p].resp.state.state = StateResponse(d.vault_files, None).state
                /\ w[p].kind = "history" =>
                      \E d \in whole : \E rows \in SelectHistory(d, w[p].stable_id) :
                          w[p].resp.history = [n \in DOMAIN rows |-> HistoryEntry(rows[n])]

\* a getHistory that arrived while an upload of two versions of the file was
\* in flight has returned both, the upload having committed before its read
C23_Witness ==
    /\ Responded("w2", "history") /\ Succeeded("w2")
    /\ Len(w["w2"].resp.history) = 2
    /\ w["w1"].kind = "upload" /\ w["w1"].pc = "invalidate"
    /\ w["w1"].data = << File1, File2 >>

\* C24 as stated: of the requests for a new vault the table creation runs
\* for exactly one.
C24_CreationRunsOnce ==
    \A v \in Vaults : creations[v].runs <= 1

\* C24 amended: the table creation runs only under the lock and only for a
\* vault that is not recorded, so for one request at a time while the others
\* wait; it runs to its end at most once per vault, and the vault is recorded
\* exactly when it has; a request gets its connection only when the vault is
\* recorded and its schema complete; a creation that fails answers 500
\* "Database initialization failed", records nothing, and the creation runs
\* again for the next request, over what the failed run left, without a
\* duplicate-object error; once the vault is recorded it stays recorded and
\* the creation is never run for it again.
C24_SchemaInitOnce ==
    [][ /\ \A v \in Vaults :
             /\ creations[v].done <= 1
             /\ v \in initialized_dbs <=> creations[v].done = 1
             /\ v \in initialized_dbs => schema[v] = "complete"
             /\ v \in initialized_dbs =>
                   /\ v \in initialized_dbs'
                   /\ creations'[v] = creations[v]
             /\ creations'[v] # creations[v] =>
                   /\ db_init_lock \in Workers
                   /\ w[db_init_lock].pc = "create_tables"
                   /\ w[db_init_lock].vault = v
                   /\ db_init_lock' = NoWorker
        /\ \A p \in Workers :
             /\ w[p].pc = "create_tables" <=> db_init_lock = p
             /\ w[p].pc \in {"connect", "select_list"} =>
                   /\ w[p].vault \in initialized_dbs
                   /\ schema[w[p].vault] = "complete"
             /\ \A n \in DOMAIN w[p].log : w[p].log[n] # "duplicate object"
             /\ (w[p].pc = "respond" /\ w[p].resp.detail = "Database initialization failed")
                   => w[p].log = << "create_tables failed" >> ]_vars

\* two first requests for v1 at once: one has created the tables, the other
\* has waited and found the vault recorded, and both have their connection
C24_Witness ==
    /\ \A p \in Workers : w[p].vault = "v1" /\ w[p].pc \in {"connect", "select_list"}
    /\ \E p \in Workers : w[p].log = << "create_tables" >>
    /\ \E p \in Workers : w[p].log = << >>
    /\ creations["v1"] = [runs |-> 1, done |-> 1]

\* the elements of the sequence q
Range(q) == { q[n] : n \in DOMAIN q }

\* C25: a getContent that succeeds returns entries of different paths, each
\* a requested path and each the data of a stored file_versions row of that
\* path; a requested path with a stored row has exactly one entry, also when
\* it is requested twice or stored several times, and a requested path with
\* no stored row has none.
C25_OneEntryPerPath ==
    \A p \in Workers :
        (Responded(p, "files") /\ Succeeded(p)) =>
            LET fs == w[p].resp.files
                stored == db[w[p].vault].file_versions
            IN  /\ \A i, j \in DOMAIN fs :
                      i # j => fs[i].encryptedFilePath # fs[j].encryptedFilePath
                /\ \A n \in DOMAIN fs :
                      /\ fs[n].encryptedFilePath \in Range(w[p].paths)
                      /\ \E k \in DOMAIN stored : FileContent(stored[k]) = fs[n]
                /\ \A path \in Range(w[p].paths) :
                      Cardinality({ n \in DOMAIN fs : fs[n].encryptedFilePath = path })
                          = IF \E k \in DOMAIN stored : stored[k].encryptedFilePath = path
                            THEN 1 ELSE 0

\* the path p1, requested twice and stored in two versions, has one entry
C25_Witness ==
    \E p \in Workers :
        /\ Responded(p, "files") /\ Succeeded(p)
        /\ w[p].paths = << "p1", "p1" >>
        /\ Cardinality({ k \in DOMAIN db[w[p].vault].file_versions :
                           db[w[p].vault].file_versions[k].encryptedFilePath = "p1" }) = 2
        /\ Len(w[p].resp.files) = 1

\* C26: a getContent for no path ends in success with the empty list and
\* has executed no storage statement.
C26_EmptyRequestSkipsStorage ==
    \A p \in Workers :
        (Responded(p, "files") /\ w[p].paths = << >>) =>
            /\ Succeeded(p)
            /\ w[p].resp.files = << >>
            /\ w[p].log = << >>

\* a getContent for no path has ended on a vault that holds versions
C26_Witness ==
    \E p \in Workers :
        /\ Responded(p, "files") /\ w[p].paths = << >>
        /\ Len(db[w[p].vault].file_versions) = 2

\* the place of a stableId in the BINARY collation order
Rank(sid) == CHOOSE n \in DOMAIN StableIdOrder : StableIdOrder[n] = sid

\* C27: a listFiles that succeeds returns as many pairs as the vault has
\* vault_files rows, for every row, deleted or not, the pair of its stableId
\* and its current path, the pairs in ascending order of stableId.
C27_ListEveryRowInOrder ==
    \A p \in Workers :
        (Responded(p, "list") /\ Succeeded(p)) =>
            LET l == w[p].resp.file_list
                rows == db[w[p].vault].vault_files
            IN  /\ Len(l) = Cardinality(rows)
                /\ \A r \in rows :
                      Cardinality({ n \in DOMAIN l :
                          l[n] = [stableId |-> r.stableId,
                                  currentEncryptedFilePath |-> r.currentEncryptedFilePath] }) = 1
                /\ \A i, j \in DOMAIN l :
                      i < j => Rank(l[i].stableId) < Rank(l[j].stableId)

\* a list of two files, the first of them deleted, under its current path
C27_Witness ==
    \E p \in Workers :
        /\ Responded(p, "list") /\ Succeeded(p)
        /\ uploaded[w[p].vault] = << File3, File2 >>
        /\ w[p].resp.file_list =
              << [stableId |-> "s1", currentEncryptedFilePath |-> "p2"],
                 [stableId |-> "s2", currentEncryptedFilePath |-> "p1"] >>

\* C28: in the step that commits an accepted upload, the marker committed
\* for the vault so far is unset or equal to the upload's marker, and it is
\* unset when the upload carries no marker, however uploads and resets of
\* other workers interleave with it.
C28_GateHoldsAtCommit ==
    [][ \A p \in Workers :
          (w[p].kind = "upload" /\ w[p].pc = "commit" /\ w'[p].pc = "invalidate")
              => \/ ~ Truthy(Marker(w[p].vault))
                 \/ Truthy(w[p].marker) /\ Marker(w[p].vault) = w[p].marker ]_vars

\* the rows and the marker of the states the cache runs can commit: the
\* fresh or reset vault, and the vault after an upload without or with marker
CommittedStates ==
    { << {}, None >>, << {FileRow(File1)}, None >>, << {FileRow(File1)}, "A" >> }

\* every committed state of the cache runs is one of these
CommittedStatesOnly ==
    \A v \in SoloVaults : << db[v].vault_files, Marker(v) >> \in CommittedStates

\* C29 as stated: the snapshot a getState returns, read or cached, is the
\* rows and the marker of one and the same committed state of the vault.
C29_SnapshotOfOneCommittedState ==
    \A p \in Workers :
        (Responded(p, "state") /\ Succeeded(p)) =>
            \E s \in CommittedStates :
                w[p].resp.state = StateResponse(s[1], s[2])

\* C29 amended: each of the two reads of a getState is consistent by
\* itself, the rows read being the committed rows at the moment of the first
\* SELECT and the marker read the committed marker at the moment of the
\* second, and the snapshot returned and cached is made of these two.
C29_EachReadCommitted ==
    [][ \A p \in Workers :
          w[p].kind = "state" =>
            LET v == w[p].vault
            IN  /\ (w[p].pc = "select_files" /\ w'[p].pc = "select_meta")
                      => w'[p].rows = db[v].vault_files
                /\ (w[p].pc = "select_meta" /\ w'[p].pc = "cache_set")
                      => w'[p].existing = Marker(v)
                /\ (w[p].pc = "cache_set" /\ w'[p].pc = "respond")
                      => /\ w'[p].resp.state = StateResponse(w[p].rows, w[p].existing)
                         /\ state_cache'[v] = w'[p].resp.state ]_vars

\* a getState has read no row, then the marker "A" an upload committed
\* with its file in between, and returns the two as its snapshot
C29_Witness ==
    \E p \in Workers :
        /\ Responded(p, "state") /\ Succeeded(p)
        /\ w[p].resp.detail = "db"
        /\ w[p].resp.state = StateResponse({}, "A")
        /\ db[w[p].vault].vault_files = {FileRow(File1)}

\* C30: the version_time of the committed file_versions rows of a vault
\* never decreases in insert order, also when uploads run concurrently.
C30_VersionTimeMonotonic ==
    \A v \in Vaults :
        \A i, j \in DOMAIN db[v].file_versions :
            i < j => TextLeq(db[v].file_versions[i].version_time,
                             db[v].file_versions[j].version_time)

\* C31: a getHistory that succeeds for a stableId the vault has a
\* vault_files row of, while no upload is in flight, returns as its first
\* entry a version with the path, mtime, contentHash and isBinary of that row.
C31_NewestVersionIsCurrent ==
    \A p \in Workers :
        (/\ Responded(p, "history") /\ Succeeded(p)
         /\ \A q \in Workers : w[q].kind # "upload"
         /\ \E r \in db[w[p].vault].vault_files : r.stableId = w[p].stable_id)
            => LET r == CHOOSE x \in db[w[p].vault].vault_files :
                            x.stableId = w[p].stable_id
                   h == w[p].resp.history
               IN  /\ h # << >>
                   /\ h[1].filePath = r.currentEncryptedFilePath
                   /\ h[1].mtime = r.currentMtime
                   /\ h[1].contentHash = r.currentContentHash
                   /\ h[1].isBinary = r.isBinary

\* the stableIds of the rows of a table
StableIdsOf(rows) == { r.stableId : r \in rows }

\* C32: in every committed state of a vault the stableIds that have a
\* file_versions row are the stableIds that have a vault_files row.
C32_VersionsAndRowsAgree ==
    \A v \in Vaults :
        StableIdsOf(Range(db[v].file_versions)) = StableIdsOf(db[v].vault_files)

\* a committed upload of two files has left two rows and two versions
C32_Witness ==
    \E v \in Vaults :
        /\ StableIdsOf(db[v].vault_files) = {"s1", "s2"}
        /\ Len(db[v].file_versions) = 2
        /\ uploaded[v] = << File1, File3 >>

\* with one request at a time, a request other than a forceReset leaves every stableId it found in
\* vault_files there; an upload that succeeds leaves, for each of its
\* stableIds, a row with the deleted flag of its last item of that id, set or
\* cleared, and one more version per item; a getState that succeeds returns
\* every row with its deleted flag and a listFiles every row's stableId.
SoftDeleteKeepsRow ==
    \A p \in Workers :
        LET v == w[p].vault
        IN  /\ (w[p].pc = "respond" /\ w[p].kind \notin {"reset", "none"})
                  => StableIdsOf(w[p].pre.db.vault_files) \subseteq StableIdsOf(db[v].vault_files)
            /\ (Responded(p, "upload") /\ Succeeded(p))
                  => /\ \A k \in DOMAIN w[p].data :
                           \E r \in db[v].vault_files :
                              /\ r.stableId = w[p].data[k].stableId
                              /\ r.deleted = IntOfBool(LastOf(w[p].data, k).deleted)
                     /\ Len(db[v].file_versions)
                           = Len(w[p].pre.db.file_versions) + Len(w[p].data)
            /\ (Responded(p, "state") /\ Succeeded(p))
                  => \A r \in db[v].vault_files :
                        /\ r.stableId \in DOMAIN w[p].resp.state.state
                        /\ w[p].resp.state.state[r.stableId].deleted = (r.deleted = 1)
            /\ (Responded(p, "list") /\ Succeeded(p))
                  => \A r \in db[v].vault_files :
                        \E n \in DOMAIN w[p].resp.file_list :
                            w[p].resp.file_list[n].stableId = r.stableId

\* C33: a getState that arrives while no request is in flight and succeeds
\* returns every stableId the vault's state held on its arrival, with its
\* deleted flag (no forceReset and no upload with deleted=false occurs in
\* these runs, so a row that is there stays there, deleted).
C33_DeletedRowStillReturned ==
    \A p \in Workers :
        (Responded(p, "state") /\ Succeeded(p) /\ w[p].pre.busy = {})
            => \A r \in w[p].pre.db.vault_files :
                  /\ r.stableId \in DOMAIN w[p].resp.state.state
                  /\ w[p].resp.state.state[r.stableId].deleted = (r.deleted = 1)

\* C34: when the last committed mutation of a vault is a forceReset without
\* marker that replaced the marker "A", a getState that arrives while no
\* request is in flight, and is answered from the cache entry it found,
\* reports no marker.
C34_StateAfterResetHasNoMarker ==
    \A p \in Workers :
        (/\ Responded(p, "state") /\ Succeeded(p)
         /\ w[p].pre.busy = {}
         /\ w[p].pre.replaced = << "A" >>
         /\ MarkerBefore(p) = None
         /\ Cached(w[p].pre.cache, w[p].vault)
         /\ w[p].resp.state = w[p].pre.cache[w[p].vault])
            => w[p].resp.state.encryptionValidation = None

\* with one request at a time, after a forceReset without marker that
\* replaced a set marker: the stored marker is null, a getState reports no
\* marker, and an upload is accepted whatever its marker and stores it when
\* it is set
ResetWithoutMarkerUnsets ==
    \A p \in Workers :
        (w[p].pre.replaced # << >> /\ Truthy(w[p].pre.replaced[1]) /\ MarkerBefore(p) = None)
            => /\ (Responded(p, "state") /\ Succeeded(p))
                     => w[p].resp.state.encryptionValidation = None
               /\ (Responded(p, "upload") /\ ~ StorageFailed(p))
                     => /\ Succeeded(p)
                        /\ Marker(w[p].vault) = IF Truthy(w[p].marker) THEN w[p].marker ELSE None

\* C35: a worker holds the initialisation lock only while it is at the
\* creation of the tables, having made no call of its handler yet: with its
\* connection open or its handler running (a storage statement, a cache
\* call) it does not hold the lock.
C35_InitLockOnlyAroundInit ==
    \A p \in Workers :
        /\ db_init_lock = p => (w[p].pc = "create_tables" /\ w[p].log = << >>)
        /\ w[p].pc \notin {"idle", "db_init_lock", "create_tables"} => db_init_lock # p

\* a request that created its vault's tables is at a cache call of its
\* handler while the other worker holds the lock for the other vault
C35_Witness ==
    \E p, q \in Workers :
        /\ w[p].kind = "state" /\ w[p].pc = "cache_set"
        /\ w[p].log[1] = "create_tables"
        /\ db_init_lock = q /\ q # p

\* worker p's request has ended in the initialisation error
InitFailed(r) ==
    r.pc = "respond" /\ r.resp.detail = "Database initialization failed"

\* C36: the step in which the creation of a vault's tables fails ends the
\* request with 500 "Database initialization failed" before its connection
\* is opened or its handler has run, frees the lock, leaves the vault
\* unrecorded and changes neither tables nor cache; and a request that passes
\* the lock for an unrecorded vault goes on to create the tables.
C36_FailedInitIsRetried ==
    [][ \A p \in Workers :
          /\ (~ InitFailed(w[p]) /\ InitFailed(w'[p])) =>
                /\ w[p].pc = "create_tables" /\ db_init_lock = p
                /\ w'[p].resp.status = 500
                /\ w'[p].log = << "create_tables failed" >>
                /\ db_init_lock' = NoWorker
                /\ w[p].vault \notin initialized_dbs'
                /\ creations'[w[p].vault].done = 0
                /\ db' = db /\ txn' = txn /\ state_cache' = state_cache
          /\ (w[p].pc = "db_init_lock" /\ w'[p].pc # "db_init_lock"
                 /\ w[p].vault \notin initialized_dbs) =>
                w'[p].pc = "create_tables" /\ db_init_lock' = p ]_vars

\* the creation has failed for one request, and the request that waited
\* for the lock is now creating the tables of the same vault
C36_Witness ==
    \E p, q \in Workers :
        /\ InitFailed(w[p])
        /\ w[q].pc = "create_tables" /\ w[q].vault = w[p].vault
        /\ creations[w[p].vault] = [runs |-> 1, done |-> 0]

\* C37: while requests for two different vaults are in flight, each of them
\* can take its next step, whatever step the other is in.
C37_VaultsNeverBlockEachOther ==
    \A p, q \in Workers :
        (w[p].pc # "idle" /\ w[q].pc # "idle" /\ w[p].vault # w[q].vault)
            => ENABLED (GetDb(q) \/ HandleUpload(q) \/ HandleState(q) \/ Respond(q))

\* the place of a step in the order RECEIVED (get_db, arrival at the
\* handler), GATE_CHECKED (the SELECT of the marker and the gate),
\* STORAGE_APPLIED (the writes and the commit), CACHE_SETTLED (the
\* invalidation), RESPONDED
Phase(pc) ==
    CASE pc = "db_init_lock" -> 1
      [] pc = "create_tables" -> 2
      [] pc = "connect" -> 3
      [] pc = "select_meta" -> 4
      [] pc = "write_meta" -> 5
      [] pc = "stamp" -> 6
      [] pc = "replace_file" -> 7
      [] pc = "insert_version" -> 8
      [] pc = "commit" -> 9
      [] pc = "invalidate" -> 10
      [] pc = "respond" -> 11
      [] OTHER -> 0

\* worker p's upload moves forward in the order of the phases, to the
\* invalidation only from the commit, and from its response only to idle
UploadMovesForward(p) ==
    (w[p].kind = "upload" /\ w'[p] # w[p]) =>
        /\ IF w[p].pc = "respond" THEN w'[p].pc = "idle"
           ELSE \/ Phase(w'[p].pc) > Phase(w[p].pc)
                \/ /\ w[p].pc = "insert_version" /\ w'[p].pc = "replace_file"
                   /\ w'[p].i = w[p].i + 1
        /\ w'[p].pc = "invalidate" => w[p].pc = "commit"
        /\ w'[p].pc = "commit" => w[p].pc \in {"stamp", "insert_version"}

\* no statement of the gate or of the transaction's end is run twice, and a
\* rollback ends the request; a worker at a cache call does not hold the
\* initialisation lock; while a request is in hand some request can go on
UploadNeverStuck ==
    /\ \A p \in Workers :
          /\ Occurrences(w[p].log, "SELECT vault_metadata") <= 1
          /\ Occurrences(w[p].log, "commit") + Occurrences(w[p].log, "rollback") <= 1
          /\ Occurrences(w[p].log, "rollback") = 1 => (w[p].pc = "respond" /\ StorageFailed(p))
          /\ w[p].pc = "invalidate" => db_init_lock # p
          /\ db_init_lock = p => w[p].pc = "create_tables"
    /\ (\E p \in Workers : w[p].pc # "idle") => ENABLED (\E p \in Workers : LifeStep(p))

\* C38: an upload goes through its phases in order, none twice, nothing
\* retried after a rollback; the initialisation lock is not held at a cache
\* call; requests in hand never all wait for each other; and with every
\* worker scheduled again and again, a request received is responded to,
\* and its response sent once.
C38_UploadLifecycle ==
    /\ [][\A p \in Workers : UploadMovesForward(p)]_vars
    /\ []UploadNeverStuck
    /\ \A p \in Workers : (w[p].pc # "idle") ~> (w[p].pc = "respond")
    /\ \A p \in Workers : (w[p].pc = "respond") ~> (w[p].pc = "idle")

\* an upload that created the tables has gone through every phase and the
\* upload of the other worker, with the other marker, has been rejected
C38_Witness ==
    \E p, q \in Workers :
        /\ Responded(p, "upload") /\ Succeeded(p)
        /\ w[p].log = << "create_tables", "SELECT vault_metadata", "REPLACE vault_metadata",
                         "REPLACE vault_files", "INSERT file_versions", "commit",
                         "invalidate_state_cache" >>
        /\ Responded(q, "upload") /\ KeyMismatch(q)

\* C39: a request with a wrong API key ends with 401, having run neither
\* the creation of the vault's tables nor any storage statement or cache
\* call, and it leaves the vault as unrecorded as it found it.
C39_WrongKeyHasNoEffect ==
    [][ \A p \in Workers :
          (w[p].x_api_key # API_KEY /\ w[p].pc # "idle" /\ w'[p] # w[p]) =>
              /\ w'[p].log = << >>
              /\ w'[p].pc = "respond" => w'[p].resp.status = 401
              /\ UNCHANGED <<db, txn, state_cache, initialized_dbs, schema, creations>> ]_vars

\* C40: storage errors aside, an upload with the marker "" is rejected with
\* "Server expects encrypted data" and changes nothing when the vault stores
\* a non-empty marker, and otherwise succeeds and leaves the stored marker as
\* it was; an upload to a vault that stores the marker "" succeeds whatever
\* its marker, and stores its marker when that is non-empty.
C40_EmptyMarkerIsNoMarker ==
    \A p \in Workers :
        (Responded(p, "upload") /\ ~ StorageFailed(p)) =>
            LET v == w[p].vault
            IN  /\ (w[p].marker = "" /\ Truthy(MarkerBefore(p)))
                      => EncryptionRequired(p) /\ db[v] = w[p].pre.db
                /\ (w[p].marker = "" /\ ~ Truthy(MarkerBefore(p)))
                      => Succeeded(p) /\ Marker(v) = MarkerBefore(p)
                /\ MarkerBefore(p) = ""
                      => /\ Succeeded(p)
                         /\ Marker(v) = IF Truthy(w[p].marker) THEN w[p].marker ELSE ""

\* a forceReset has stored the marker "" and the upload after it, with the
\* marker "A", has succeeded and stored "A"
C40_Witness ==
    \E p \in Workers :
        /\ Responded(p, "upload") /\ Succeeded(p)
        /\ MarkerBefore(p) = "" /\ w[p].marker = "A"
        /\ Marker(w[p].vault) = "A"

====
